---- MODULE Spec2Model ----
(***************************************************************************)
(* A model of the snowpipe-streaming client runtime:                       *)
(*   - the token guard (src/src/token/{guard,envelope,policy}.rs),         *)
(*   - the channel ingestion protocol (src/src/channel.rs),                *)
(*   - the authenticated dispatch of control-plane calls                   *)
(*     (src/src/client/impls.rs, src/src/client/crypto.rs).                *)
(* Each subsystem has its own specification (SpecGuard, SpecChannel,       *)
(* SpecDispatch, SpecRetry, SpecClient, SpecScoped); the variables of the  *)
(* other subsystems stay at their initial value.  Times are whole seconds  *)
(* unless stated otherwise.                                                *)
(***************************************************************************)
EXTENDS Integers, Sequences, FiniteSets, TLC

VARIABLES
    \* ---- token guard (TokenGuard, guard.rs:24-31)
    gnow,          \* the wall clock read by SystemTime::now()
    policy,        \* TokenGuard.policy
    clock_skew,    \* TokenGuard.clock_skew
    envelope,      \* TokenGuard.envelope
    last_refresh,  \* TokenGuard.last_refresh (None or a time)
    refresh_lock,  \* TokenGuard.refresh_lock: the caller holding it, or NoCaller
    callers,       \* one record per task calling ensure_fresh
    returned,      \* the latest return of ensure_fresh: caller, arguments, result
    refreshes,     \* number of refresh_cb invocations started so far
    calls,         \* number of ensure_fresh calls that went past the fast path
    \* ---- channel (StreamingIngestChannel, channel.rs:12-19)
    chan,          \* the channel object: opened, continuation_token, offsets
    cpc,           \* where the task that owns the channel (&mut self) stands
    op,            \* the running operation: kind, chunks still to send, ...
    inflight,      \* the HTTP requests sent and not yet answered
    cresult,       \* what the latest operation returned
    sent,          \* requests sent since the running operation began, by kind
    elapsed,       \* close_with_timeout: tenths of a second since `start`
    lastTok,       \* the token of the latest successful open/append response
    lastReported,  \* the committed offset of the latest status response
    \* ---- control-plane dispatch (StreamingIngestClient, client/mod.rs:14-29)
    dnow,          \* the clock, in seconds
    client,        \* the client's configuration: auth_state kind, retry flag
    jwt,           \* the JwtContext of a managed client
    dpc,           \* where the running send_with_token_strategy stands
    call,          \* the running call: name, retry flags, token, sleep
    dlog,          \* requests, responses, warnings, sleeps of the running call
    dresult,       \* what the latest call returned
    sends,         \* number of control-plane calls started so far
    \* ---- retry coordinator (RetryCoordinator, retry/coordinator.rs:30-33)
    plan,          \* RetryCoordinator.plan
    rpc,           \* where the running execute stands
    attempt,       \* execute's local `attempt`
    rlog,          \* attempt numbers passed to op, sleeps taken, latest error
    delayed,       \* the latest call of delay_for_attempt: attempt, delay
    rresult,       \* what the latest execute returned
    \* ---- client construction and the shared scoped token (client/impls.rs)
    npc,           \* where StreamingIngestClient::new stands
    url_ok,        \* whether the configured control-host URL parses
    key_ok,        \* whether the configured private key can be loaded
    ingest_host,   \* StreamingIngestClient.ingest_host: <<>> or <<host>>
    scoped_token,  \* StreamingIngestClient.scoped_token: <<>> or <<token>>
    nresult,       \* what new() returned
    users,         \* one record per task inside send_with_scoped_token
    exchanged,     \* number of scoped tokens handed out so far
    requested,     \* number of data-plane calls started so far
    \* ---- the token contexts built by client.rs (client.rs:231-250, 376-404)
    build          \* the Config, the position in construction, the policies built

guardVars == <<gnow, policy, clock_skew, envelope, last_refresh, refresh_lock,
               callers, returned, refreshes, calls>>

chanVars == <<chan, cpc, op, inflight, cresult, sent, elapsed, lastTok, lastReported>>

dispVars == <<dnow, client, jwt, dpc, call, dlog, dresult, sends>>

retryVars == <<plan, rpc, attempt, rlog, delayed, rresult>>

clientVars == <<npc, url_ok, key_ok, ingest_host, scoped_token, nresult,
                users, exchanged, requested>>

buildVars == <<build>>

vars == <<guardVars, chanVars, dispVars, retryVars, clientVars, buildVars>>

\* what the actions of one subsystem leave alone
nonGuardVars == <<chanVars, dispVars, retryVars, clientVars, buildVars>>
nonChanVars == <<guardVars, dispVars, retryVars, clientVars, buildVars>>
nonDispVars == <<guardVars, chanVars, retryVars, clientVars, buildVars>>
nonRetryVars == <<guardVars, chanVars, dispVars, clientVars, buildVars>>
nonBuildVars == <<guardVars, chanVars, dispVars, retryVars, clientVars>>
\* what construction, which runs control-plane calls, leaves alone, and what
\* the users of the scoped token leave alone
nonClientVars == <<guardVars, chanVars, retryVars, buildVars>>
nonScopedVars == <<guardVars, chanVars, dispVars, retryVars, buildVars>>

None == -1
NoCaller == 0

Min(a, b) == IF a <= b THEN a ELSE b
Max(a, b) == IF a >= b THEN a ELSE b

(***************************************************************************)
(* Bounds of the token guard model.                                        *)
(***************************************************************************)
NumCallers == 2
MaxCalls == 2
MaxTicks == 2

Callers == 1..NumCallers
\* the clock advances in steps of this many seconds, up to GuardHorizon
TimeSteps == {30}
GuardHorizon == MaxTicks * 30
\* the (threshold, min_cooldown, max_skew) triples handed to RefreshPolicy::new
\* and the clock skew of the TokenGuardConfig
PolicyInputs ==
    { [threshold |-> 60, min_cooldown |-> 60, max_skew |-> 30],
      [threshold |-> 60, min_cooldown |-> 0, max_skew |-> 0],
      [threshold |-> 30, min_cooldown |-> 60, max_skew |-> 30],
      [threshold |-> 0, min_cooldown |-> 60, max_skew |-> 0] }
ClockSkews == {0, 60}
\* lifetime of the token the guard is built with, and of refreshed tokens
InitTtls == {60, 120}
RefreshTtls == {30, 60, 120}

MIN_TTL_SECS == 60

(***************************************************************************)
(* token/policy.rs                                                         *)
(***************************************************************************)
\* RefreshPolicy::new: Ok exactly when threshold > 0 and max_skew < threshold
RefreshPolicyNewOk(threshold, max_skew) ==
    /\ threshold # 0
    /\ ~(max_skew >= threshold)

Policies == { p \in PolicyInputs : RefreshPolicyNewOk(p.threshold, p.max_skew) }

(***************************************************************************)
(* token/envelope.rs                                                       *)
(***************************************************************************)
\* TokenEnvelope::try_new: Ok exactly when expires_at > issued_at and the TTL
\* is at least 60 seconds
TryNewOk_NoFloor(issued_at, expires_at) == ~(expires_at <= issued_at)

TryNewOk(issued_at, expires_at) ==
    /\ ~(expires_at <= issued_at)
    /\ ~(expires_at - issued_at < MIN_TTL_SECS)

TryNew(value, issued_at, expires_at, scoped) ==
    [value |-> value, issued_at |-> issued_at, expires_at |-> expires_at,
     scoped |-> scoped, refresh_in_progress |-> FALSE]

\* TokenEnvelope::to_snapshot (whole seconds since the epoch)
ToSnapshot(env) ==
    [value |-> env.value, issued_at |-> env.issued_at,
     expires_at |-> env.expires_at, scoped |-> env.scoped]

\* TokenEnvelope::remaining: None when `at` is past expires_at
Remaining(env, at) == IF env.expires_at >= at THEN env.expires_at - at ELSE None

\* TokenEnvelope::set_refresh_in_progress
SetRefreshInProgress_Always(env, b) == [env EXCEPT !.refresh_in_progress = TRUE]

SetRefreshInProgress(env, b) == [env EXCEPT !.refresh_in_progress = b]

\* TokenEnvelope::update_from_snapshot: Err(Config) leaves the envelope as it
\* is (refresh_in_progress included), Ok replaces the four fields and clears
\* refresh_in_progress
UpdateFromSnapshot(env, snap) ==
    IF TryNewOk(snap.issued_at, snap.expires_at)
    THEN TryNew(snap.value, snap.issued_at, snap.expires_at, snap.scoped)
    ELSE env

(***************************************************************************)
(* token/guard.rs                                                          *)
(***************************************************************************)
\* TokenGuard::should_refresh
ShouldRefresh_Always(env, last, now) == TRUE

ShouldRefresh_NoCooldown(env, last, now) ==
    IF env.refresh_in_progress THEN FALSE
    ELSE IF Remaining(env, now + clock_skew) = None THEN TRUE
    ELSE Remaining(env, now + clock_skew) <= policy.threshold + policy.max_skew

ShouldRefresh(env, last, now) ==
    IF env.refresh_in_progress THEN FALSE
    ELSE IF Remaining(env, now + clock_skew) = None THEN TRUE
    ELSE IF Remaining(env, now + clock_skew) > policy.threshold + policy.max_skew
         THEN FALSE
    ELSE IF last # None /\ now >= last /\ now - last < policy.min_cooldown
         THEN FALSE
    ELSE TRUE

\* a mutex that never makes a caller wait
\* guard.rs:64 and 74: the cached snapshot is returned without a refresh
Skips_IgnoreForce(force, env, last, now) == ~ShouldRefresh(env, last, now)

Skips(force, env, last, now) == ~force /\ ~ShouldRefresh(env, last, now)

LockAvailable_NoExclusion == TRUE

\* refresh_lock.lock().await completes only when nobody holds the mutex
LockAvailable == refresh_lock = NoCaller

Ok(snap) == [kind |-> "ok", snap |-> snap]
Err(e) == [kind |-> "err", err |-> e]
NoResult == [kind |-> "none"]

IdleCaller ==
    [pc |-> "idle", force |-> FALSE, start |-> 0, sawValue |-> 0, sawStale |-> FALSE]

\* what an ensure_fresh call returned, with the call it answers
Returned(c, result) ==
    [caller |-> c, force |-> callers[c].force, result |-> result,
     sawValue |-> callers[c].sawValue, sawStale |-> callers[c].sawStale]

\* the guards a client can build: a validated policy, a clock skew and the
\* lifetime of the first token
GuardConfigs ==
    { g \in [policy : Policies, clock_skew : ClockSkews, ttl : InitTtls] :
        TryNewOk(0, g.ttl) }

\* TokenGuard::new over TokenEnvelope::try_new
GuardInit ==
    /\ gnow = 0
    /\ \E g \in GuardConfigs :
          /\ policy = g.policy
          /\ clock_skew = g.clock_skew
          /\ envelope = TryNew(0, 0, g.ttl, FALSE)
    /\ last_refresh = None
    /\ refresh_lock = NoCaller
    /\ callers = [c \in Callers |-> IdleCaller]
    /\ returned = [caller |-> NoCaller]
    /\ refreshes = 0
    /\ calls = 0

\* the token is stale: its remaining TTL at now + clock_skew is not above
\* threshold + max_skew (or it has expired)
Stale(env, now) ==
    \/ Remaining(env, now + clock_skew) = None
    \/ Remaining(env, now + clock_skew) <= policy.threshold + policy.max_skew

\* guard.rs:59-67: ensure_fresh reads the clock, last_refresh and the envelope
\* (read locks that no writer holds across a suspension point) and takes the
\* fast path or goes on to the refresh lock
Call(c, force) ==
    /\ callers[c].pc = "idle"
    /\ LET entered == [pc |-> "wait_lock", force |-> force, start |-> 0,
                       sawValue |-> envelope.value,
                       sawStale |-> Stale(envelope, gnow)]
       IN  IF Skips(force, envelope, last_refresh, gnow)
           THEN /\ callers' = [callers EXCEPT ![c] = IdleCaller]
                /\ returned' = [caller |-> c, force |-> force,
                                result |-> Ok(ToSnapshot(envelope)),
                                sawValue |-> entered.sawValue,
                                sawStale |-> entered.sawStale]
                /\ UNCHANGED calls
           ELSE /\ calls < MaxCalls
                /\ calls' = calls + 1
                /\ callers' = [callers EXCEPT ![c] = entered]
                /\ UNCHANGED returned
    /\ UNCHANGED <<gnow, policy, clock_skew, envelope, last_refresh, refresh_lock,
                   refreshes>>
    /\ UNCHANGED nonGuardVars

\* guard.rs:70-78: take the refresh lock, re-check, mark the refresh
SlowPath(c) ==
    /\ callers[c].pc = "wait_lock"
    /\ LockAvailable
    /\ IF Skips(callers[c].force, envelope, last_refresh, gnow)
       THEN /\ callers' = [callers EXCEPT ![c] = IdleCaller]
            /\ returned' = Returned(c, Ok(ToSnapshot(envelope)))
            /\ UNCHANGED <<envelope, refresh_lock>>
       ELSE /\ envelope' = SetRefreshInProgress(envelope, TRUE)
            /\ refresh_lock' = c
            /\ callers' = [callers EXCEPT ![c].pc = "jitter"]
            /\ UNCHANGED returned
    /\ UNCHANGED <<gnow, policy, clock_skew, last_refresh, refreshes, calls>>
    /\ UNCHANGED nonGuardVars

\* guard.rs:80-90: the jitter sleep is over, refresh_cb is invoked
StartRefresh(c) ==
    /\ callers[c].pc = "jitter"
    /\ callers' = [callers EXCEPT ![c].pc = "refreshing", ![c].start = gnow]
    /\ refreshes' = refreshes + 1
    /\ UNCHANGED <<gnow, policy, clock_skew, envelope, last_refresh, refresh_lock,
                   returned, calls>>
    /\ UNCHANGED nonGuardVars

\* the snapshot the n-th refresh_cb invocation produces at time `now`
Refreshed(n, now, ttl, scoped) ==
    [value |-> n, issued_at |-> now, expires_at |-> now + ttl, scoped |-> scoped]

\* guard.rs:91-95: refresh_cb returned Ok(snapshot); the envelope takes it, or
\* rejects it and ensure_fresh returns the error through `?`
RefreshOk(c, ttl) ==
    /\ callers[c].pc = "refreshing"
    /\ LET snap == Refreshed(refreshes, gnow, ttl, envelope.scoped)
       IN  /\ envelope' = UpdateFromSnapshot(envelope, snap)
           /\ IF TryNewOk(snap.issued_at, snap.expires_at)
              THEN /\ callers' = [callers EXCEPT ![c].pc = "updated"]
                   /\ UNCHANGED <<refresh_lock, returned>>
              ELSE /\ callers' = [callers EXCEPT ![c] = IdleCaller]
                   /\ returned' = Returned(c, Err("Config"))
                   /\ refresh_lock' = NoCaller
    /\ UNCHANGED <<gnow, policy, clock_skew, last_refresh, refreshes, calls>>
    /\ UNCHANGED nonGuardVars

\* guard.rs:96-101: last_refresh is advanced and the envelope read back
RefreshDone(c) ==
    /\ callers[c].pc = "updated"
    /\ last_refresh' = callers[c].start
    /\ callers' = [callers EXCEPT ![c] = IdleCaller]
    /\ returned' = Returned(c, Ok(ToSnapshot(envelope)))
    /\ refresh_lock' = NoCaller
    /\ UNCHANGED <<gnow, policy, clock_skew, envelope, refreshes, calls>>
    /\ UNCHANGED nonGuardVars

\* errors refresh_cb can return
RefreshErrors == {"Http", "Key"}

\* guard.rs:103-110: refresh_cb returned Err(e)
RefreshErr(c, e) ==
    /\ callers[c].pc = "refreshing"
    /\ envelope' = SetRefreshInProgress(envelope, FALSE)
    /\ callers' = [callers EXCEPT ![c] = IdleCaller]
    /\ returned' = Returned(c, Err(e))
    /\ refresh_lock' = NoCaller
    /\ UNCHANGED <<gnow, policy, clock_skew, last_refresh, refreshes, calls>>
    /\ UNCHANGED nonGuardVars

\* the wall clock advances
GuardTick ==
    /\ \E d \in TimeSteps : gnow + d <= GuardHorizon /\ gnow' = gnow + d
    /\ UNCHANGED <<policy, clock_skew, envelope, last_refresh, refresh_lock,
                   callers, returned, refreshes, calls>>
    /\ UNCHANGED nonGuardVars

GuardNext ==
    \/ \E c \in Callers, f \in BOOLEAN : Call(c, f)
    \/ \E c \in Callers : SlowPath(c)
    \/ \E c \in Callers : StartRefresh(c)
    \/ \E c \in Callers, ttl \in RefreshTtls : RefreshOk(c, ttl)
    \/ \E c \in Callers : RefreshDone(c)
    \/ \E c \in Callers, e \in RefreshErrors : RefreshErr(c, e)
    \/ GuardTick

(***************************************************************************)
(* channel.rs                                                              *)
(***************************************************************************)
MaxRows == 2
MaxOffset == 2
MaxElapsed == 2

MAX_REQUEST_SIZE == 16 * 1024 * 1024

\* serialized sizes of the rows a caller appends
RowSizes == {4, 4000000, 9000000, MAX_REQUEST_SIZE + 1}
\* timeouts handed to close_with_timeout, in tenths of a second
CloseTimeouts == {0, 1, 2}
\* continuation tokens the service hands out
CTokens == {"ctok-a", "ctok-b"}
\* last_committed_offset_token as the service sends it: absent, digits, or
\* text that is no u64
OffsetStrings ==
    {[tag |-> "absent"], [tag |-> "garbage"]}
        \cup { [tag |-> "digits", n |-> k] : k \in 0..(MaxOffset + 1) }

RECURSIVE SumSeq(_)
SumSeq(q) == IF q = <<>> THEN 0 ELSE Head(q) + SumSeq(Tail(q))

\* batch.join("\n").len(): the rows and one newline between neighbours
JoinLen(rows) == IF rows = <<>> THEN 0 ELSE SumSeq(rows) + (Len(rows) - 1)

\* channel.rs:61-68: the rows per chunk, from the first row's size
ChunkSize_One(rows) == 1

ChunkSize(rows) ==
    LET row_size == IF rows = <<>> THEN 0 ELSE Head(rows)
    IN  IF row_size = 0 THEN MAX_REQUEST_SIZE
        ELSE Max(MAX_REQUEST_SIZE \div (2 * row_size + 1), 1)

\* slice::chunks(n): consecutive groups of n, the last one possibly shorter
RECURSIVE Chunks(_, _)
Chunks(rows, n) ==
    IF rows = <<>> THEN <<>>
    ELSE IF Len(rows) <= n THEN <<rows>>
    ELSE <<SubSeq(rows, 1, n)>> \o Chunks(SubSeq(rows, n + 1, Len(rows)), n)

\* channel.rs:92: the size check of append_rows_call
TooLarge_Never(len) == FALSE

TooLarge(len) == len > MAX_REQUEST_SIZE

\* Option<String> -> u64 as from_response and get_channel_status do it:
\* unwrap_or("0"), then parse; None stands for the panic of a failed parse
ParseOffset(str) ==
    IF str.tag = "absent" THEN 0
    ELSE IF str.tag = "digits" THEN str.n
    ELSE None

\* channel.rs:45: from_response seeds last_pushed_offset_token
SeedPushed_Zero(token) == 0

SeedPushed(token) == token

\* channel.rs:150: the pushed offset after a successful append of `rows` rows
\* sent with offsetToken `offset`
NextPushed_ByRows(offset, rows) == offset - 1 + rows

NextPushed(offset, rows) == offset

\* channel.rs:151: the continuation token after a successful append
NextToken_Kept(returned_token, old) == old

NextToken(returned_token, old) == returned_token

\* channel.rs:242: the drain loop's condition
DrainPending_Never(ch) == FALSE

DrainPending_Always(ch) == TRUE

DrainPending(ch) == ch.last_committed_offset_token < ch.last_pushed_offset_token

\* channel.rs:268
\* channel.rs:259: the deadline test made after each poll
TimedOut_Never(waited, timeout) == FALSE

TimedOut(waited, timeout) == waited >= timeout

TimeoutError_Elapsed(timeout, waited) == [kind |-> "err", err |-> "Timeout", dur |-> waited]

TimeoutError(timeout, waited) == [kind |-> "err", err |-> "Timeout", dur |-> timeout]

NoChannel ==
    [opened |-> FALSE, deleted |-> FALSE, continuation_token |-> "",
     last_committed_offset_token |-> 0, last_pushed_offset_token |-> 0]

NoOp == [kind |-> "none"]
NoSent == [append |-> 0, status |-> 0, delete |-> 0]
NoReturn == [op |-> "none", res |-> [kind |-> "none"]]

ChanInit ==
    /\ chan = NoChannel
    /\ cpc = "idle"
    /\ op = NoOp
    /\ inflight = {}
    /\ cresult = NoReturn
    /\ sent = NoSent
    /\ elapsed = 0
    /\ lastTok = ""
    /\ lastReported = None

\* an operation returns `result` to its caller
Finish(result) ==
    /\ cpc' = "idle"
    /\ cresult' = [op |-> op.kind, res |-> result]
    /\ op' = [op EXCEPT !.pending = <<>>]

\* the task unwinds: expect()/panic!()
Panic == Finish([kind |-> "panic"])

\* impls.rs:345-387 and channel.rs:22-47: open_channel, answered by the
\* service with an error or with an OpenChannelResponse
OpenChannel(okResp, tok, committed) ==
    /\ cpc = "idle"
    /\ ~chan.opened
    /\ sent' = NoSent
    /\ inflight' = {}
    /\ elapsed' = 0
    /\ UNCHANGED lastReported
    /\ LET o == [kind |-> "open", pending |-> <<>>, chunks |-> 0, rows |-> 0,
                 input |-> <<>>,
                 written |-> 0, timeout |-> 0, before |-> chan, fresh |-> FALSE]
       IN  IF ~okResp
           THEN /\ cpc' = "idle"
                /\ op' = o
                /\ cresult' = [op |-> "open", res |-> [kind |-> "err", err |-> "Reqwest"]]
                /\ UNCHANGED <<chan, lastTok>>
           ELSE IF ParseOffset(committed) = None
           THEN /\ cpc' = "idle"
                /\ op' = o
                /\ cresult' = [op |-> "open", res |-> [kind |-> "panic"]]
                /\ UNCHANGED <<chan, lastTok>>
           ELSE /\ cpc' = "idle"
                /\ op' = o
                /\ cresult' = [op |-> "open",
                               res |-> [kind |-> "ok", committed |-> committed]]
                /\ chan' = [opened |-> TRUE, deleted |-> FALSE,
                            continuation_token |-> tok,
                            last_committed_offset_token |-> ParseOffset(committed),
                            last_pushed_offset_token |-> SeedPushed(ParseOffset(committed))]
                /\ lastTok' = tok
    /\ UNCHANGED nonChanVars

\* a new operation on the channel object begins; `before` is the channel as
\* the operation found it, `fresh` says that it is the first operation on
\* the channel since open_channel returned it, and `input` holds the
\* serialized sizes of the rows handed to an append
Begin(kind, pending, input, timeout) ==
    /\ cpc = "idle"
    /\ chan.opened
    /\ op' = [kind |-> kind, pending |-> pending, chunks |-> Len(pending),
              rows |-> Len(input), input |-> input, written |-> 0,
              timeout |-> timeout, before |-> chan,
              fresh |-> cresult.op = "open"]
    /\ sent' = NoSent
    /\ cresult' = NoReturn
    /\ elapsed' = 0
    /\ UNCHANGED <<chan, inflight, lastTok, lastReported>>

\* channel.rs:50-54: append_row; serde_json::to_string(row).expect(..)
AppendRow(size, serializable) ==
    /\ chan.last_pushed_offset_token < MaxOffset
    /\ IF serializable
       THEN /\ Begin("append_row", <<<<size>>>>, <<size>>, 0)
            /\ cpc' = "append_next"
       ELSE /\ Begin("append_row", <<>>, <<size>>, 0)
            /\ cpc' = "unwind"
    /\ UNCHANGED nonChanVars

\* channel.rs:56-73: append_rows up to the loop over the requests
AppendRows(rows, serializable) ==
    /\ chan.last_pushed_offset_token < MaxOffset
    /\ IF serializable
       THEN /\ Begin("append_rows", Chunks(rows, ChunkSize(rows)), rows, 0)
            /\ cpc' = "append_next"
       ELSE /\ Begin("append_rows", <<>>, rows, 0)
            /\ cpc' = "json_error"
    /\ UNCHANGED nonChanVars

\* channel.rs:60: `?` on the serialization error
AppendRowsJsonError ==
    /\ cpc = "json_error"
    /\ Finish([kind |-> "err", err |-> "Json"])
    /\ UNCHANGED <<chan, inflight, sent, elapsed, lastTok, lastReported>>
    /\ UNCHANGED nonChanVars

\* a panic of the running operation reaches its caller
Unwind ==
    /\ cpc = "unwind"
    /\ Panic
    /\ UNCHANGED <<chan, inflight, sent, elapsed, lastTok, lastReported>>
    /\ UNCHANGED nonChanVars

\* channel.rs:74-78: the loop over the chunks goes on to the next one
NextChunks_Same(pending) == pending

NextChunks(pending) == Tail(pending)

\* channel.rs:144-148: what the rows POST can be answered with
AppendOutcomes == {"ok", "transport", "unauthorized", "body"}

\* channel.rs:106: the offset of the request is a local; the channel's
\* last_pushed_offset_token is not written when the request is sent
PushedOnSend_Eager(ch) == ch.last_pushed_offset_token + 1

PushedOnSend(ch) == ch.last_pushed_offset_token

\* channel.rs:74-78 and 91-148: the next request of the loop is taken and
\* append_rows_call checks its size and sends it; after the last one the
\* operation returns (Ok(()) for append_row, Ok(bytes_written) for append_rows)
AppendNext ==
    /\ cpc = "append_next"
    /\ IF op.pending = <<>>
       THEN /\ Finish([kind |-> "ok", written |-> op.written])
            /\ UNCHANGED <<chan, inflight, sent>>
       ELSE LET data == JoinLen(Head(op.pending))
            IN  IF TooLarge(data)
                THEN /\ cpc' = "idle"
                     /\ cresult' = [op |-> op.kind,
                                    res |-> [kind |-> "err", err |-> "DataTooLarge",
                                             actual |-> data,
                                             max |-> MAX_REQUEST_SIZE]]
                     /\ op' = [op EXCEPT !.pending = <<>>, !.written = @ + data]
                     /\ UNCHANGED <<chan, inflight, sent>>
                ELSE /\ cpc' = "append_wait"
                     /\ op' = [op EXCEPT !.written = @ + data]
                     /\ inflight' = inflight \cup
                          {[kind |-> "append", bytes |-> data,
                            rows |-> Len(Head(op.pending)),
                            continuationToken |-> chan.continuation_token,
                            offsetToken |-> chan.last_pushed_offset_token + 1]}
                     /\ sent' = [sent EXCEPT !.append = @ + 1]
                     /\ chan' = [chan EXCEPT
                            !.last_pushed_offset_token = PushedOnSend(chan)]
                     /\ UNCHANGED cresult
    /\ UNCHANGED <<elapsed, lastTok, lastReported>>
    /\ UNCHANGED nonChanVars

\* channel.rs:144-156: the answer to the rows POST: a transport failure, a
\* non-2xx status (401 Unauthorized stands for all of them), a body that is no
\* AppendRowsResponse, or success; send().await?, error_for_status()? and
\* json().await? all return the reqwest error to the caller at once
AppendResponse(outcome, tok) ==
    /\ cpc = "append_wait"
    /\ \E req \in inflight :
          /\ req.kind = "append"
          /\ inflight' = inflight \ {req}
          /\ IF outcome = "ok"
             THEN /\ chan' = [chan EXCEPT
                        !.last_pushed_offset_token = NextPushed(req.offsetToken, req.rows),
                        !.continuation_token = NextToken(tok, @)]
                  /\ lastTok' = tok
                  /\ op' = [op EXCEPT !.pending = NextChunks(@)]
                  /\ cpc' = "append_next"
                  /\ UNCHANGED cresult
             ELSE /\ Finish([kind |-> "err", err |-> "Reqwest", cause |-> outcome])
                  /\ UNCHANGED <<chan, lastTok>>
    /\ UNCHANGED <<sent, elapsed, lastReported>>
    /\ UNCHANGED nonChanVars

\* channel.rs:159-164: get_latest_committed_offset_token
LatestCommitted ==
    /\ Begin("latest", <<>>, <<>>, 0)
    /\ cpc' = "status_send"
    /\ UNCHANGED nonChanVars

\* channel.rs:166-205: get_channel_status sends the bulk-channel-status POST
StatusSend ==
    /\ cpc = "status_send"
    /\ cpc' = "status_wait"
    /\ inflight' = inflight \cup {[kind |-> "status"]}
    /\ sent' = [sent EXCEPT !.status = @ + 1]
    /\ UNCHANGED <<chan, op, cresult, elapsed, lastTok, lastReported>>
    /\ UNCHANGED nonChanVars

\* channel.rs:201-232 with the expect() of both callers (162, 246): the answer
\* to the status POST.  "error": transport failure, non-2xx or unparsable
\* JSON, an Err that the caller's expect() turns into a panic; "no_entry": no
\* usable entry for this channel, logged and answered Ok(()); "entry": an
\* entry whose last_committed_offset_token is `committed`
StatusResponse(outcome, committed) ==
    /\ cpc = "status_wait"
    /\ inflight' = inflight \ {[kind |-> "status"]}
    /\ LET after == IF op.kind = "close" THEN "close_check" ELSE "latest_done"
       IN  IF outcome = "error"
           THEN /\ Panic
                /\ UNCHANGED <<chan, lastReported>>
           ELSE IF outcome = "no_entry"
           THEN /\ cpc' = after
                /\ UNCHANGED <<chan, op, cresult, lastReported>>
           ELSE IF ParseOffset(committed) = None
           THEN /\ Panic
                /\ UNCHANGED <<chan, lastReported>>
           ELSE /\ chan' = [chan EXCEPT
                      !.last_committed_offset_token = ParseOffset(committed)]
                /\ lastReported' = ParseOffset(committed)
                /\ cpc' = after
                /\ UNCHANGED <<op, cresult>>
    /\ UNCHANGED <<sent, elapsed, lastTok>>
    /\ UNCHANGED nonChanVars

\* channel.rs:163: get_latest_committed_offset_token returns the offset
LatestDone ==
    /\ cpc = "latest_done"
    /\ Finish([kind |-> "ok", value |-> chan.last_committed_offset_token])
    /\ UNCHANGED <<chan, inflight, sent, elapsed, lastTok, lastReported>>
    /\ UNCHANGED nonChanVars

\* channel.rs:234-241: close / close_with_timeout is entered
Close(timeout) ==
    /\ Begin("close", <<>>, <<>>, timeout)
    /\ cpc' = "close_loop"
    /\ UNCHANGED nonChanVars

\* channel.rs:242 and 272-308: the loop condition; when it is false the
\* DELETE request is sent
CloseLoop ==
    /\ cpc = "close_loop"
    /\ IF DrainPending(chan)
       THEN /\ cpc' = "close_sleep"
            /\ UNCHANGED <<inflight, sent>>
       ELSE /\ cpc' = "delete_wait"
            /\ inflight' = inflight \cup {[kind |-> "delete"]}
            /\ sent' = [sent EXCEPT !.delete = @ + 1]
    /\ UNCHANGED <<chan, op, cresult, elapsed, lastTok, lastReported>>
    /\ UNCHANGED nonChanVars

\* channel.rs:243: the 100 ms sleep, which lasts one tenth or longer
CloseSleep(d) ==
    /\ cpc = "close_sleep"
    /\ d >= 1
    /\ elapsed' = Min(elapsed + d, MaxElapsed)
    /\ cpc' = "status_send"
    /\ UNCHANGED <<chan, op, inflight, cresult, sent, lastTok, lastReported>>
    /\ UNCHANGED nonChanVars

\* time passes while the status request is out
CloseTick ==
    /\ cpc = "status_wait"
    /\ op.kind = "close"
    /\ elapsed < MaxElapsed
    /\ elapsed' = elapsed + 1
    /\ UNCHANGED <<chan, cpc, op, inflight, cresult, sent, lastTok, lastReported>>
    /\ UNCHANGED nonChanVars

\* channel.rs:248-270: after the poll, the elapsed time against the timeout
CloseCheck ==
    /\ cpc = "close_check"
    /\ IF TimedOut(elapsed, op.timeout)
       THEN Finish(TimeoutError(op.timeout, elapsed))
       ELSE /\ cpc' = "close_loop"
            /\ UNCHANGED <<op, cresult>>
    /\ UNCHANGED <<chan, inflight, sent, elapsed, lastTok, lastReported>>
    /\ UNCHANGED nonChanVars

\* channel.rs:292-312: the answer to the DELETE
DeleteResponse(okResp) ==
    /\ cpc = "delete_wait"
    /\ inflight' = inflight \ {[kind |-> "delete"]}
    /\ IF okResp
       THEN /\ Finish([kind |-> "ok"])
            /\ chan' = [chan EXCEPT !.deleted = TRUE]
       ELSE /\ Finish([kind |-> "err", err |-> "Reqwest"])
            /\ UNCHANGED chan
    /\ UNCHANGED <<sent, elapsed, lastTok, lastReported>>
    /\ UNCHANGED nonChanVars

Batches == UNION { [1..n -> RowSizes] : n \in 0..MaxRows }

ChanNext ==
    \/ \E okResp \in BOOLEAN, tok \in CTokens, committed \in OffsetStrings :
          OpenChannel(okResp, tok, committed)
    \/ \E size \in RowSizes, serializable \in BOOLEAN : AppendRow(size, serializable)
    \/ \E rows \in Batches, serializable \in BOOLEAN : AppendRows(rows, serializable)
    \/ AppendRowsJsonError
    \/ Unwind
    \/ AppendNext
    \/ \E outcome \in AppendOutcomes, tok \in CTokens :
          AppendResponse(outcome, tok)
    \/ LatestCommitted
    \/ StatusSend
    \/ \E outcome \in {"error", "no_entry", "entry"}, committed \in OffsetStrings :
          StatusResponse(outcome, committed)
    \/ LatestDone
    \/ \E timeout \in CloseTimeouts : Close(timeout)
    \/ CloseLoop
    \/ \E d \in {1, 2} : CloseSleep(d)
    \/ CloseTick
    \/ CloseCheck
    \/ \E okResp \in BOOLEAN : DeleteResponse(okResp)

(***************************************************************************)
(* Authenticated dispatch of control-plane calls                           *)
(* (src/src/client/impls.rs, src/src/client/crypto.rs).                    *)
(***************************************************************************)
MaxClock == 4
MaxSends == 2

BACKOFF_DELAY_SECS == 2
DEFAULT_REFRESH_MARGIN_SECS == 30
MIN_EXP_SECS == 30
MAX_EXP_SECS == 3600

\* the token of a client configured with jwt_token; minted tokens are 1, 2, ..
ProvidedToken == 0

\* configured jwt_exp_secs
JwtExpSecs == {20, 32, 120, 7200}
ControlCalls == {"discover_ingest_host", "get_scoped_token"}
Statuses == {200, 401, 429, 500}
Bodies == {"", "denied"}
\* a response: its status, its body, and whether the body can be read
Responses == [status : Statuses, body : Bodies, readable : BOOLEAN]

\* crypto.rs:19-28
ClampExpSecs(desired) == Max(MIN_EXP_SECS, Min(desired, MAX_EXP_SECS))

\* crypto.rs:181-203: JwtContext::new; the refresh margin must be at least
\* MIN_EXP_SECS and below the effective lifetime
JwtContextNewOk(exp_secs, margin) ==
    /\ margin >= MIN_EXP_SECS
    /\ margin < ClampExpSecs(exp_secs)

JwtContextNew(exp_secs, margin) ==
    [token |-> None, issued_at |-> 0, expires_at |-> 0,
     lifetime_secs |-> ClampExpSecs(exp_secs), refresh_margin_secs |-> margin,
     clamp_logged |-> FALSE, minted |-> 0, clamp_warnings |-> 0]

\* impls.rs:84-112: the clients new() can build; test_key says that the
\* private key is a "TEST://assertion:" string (crypto.rs:98-100)
Clients ==
    { [managed |-> FALSE, retry_on_unauthorized |-> r, jwt_exp_secs |-> 120,
       test_key |-> FALSE] : r \in BOOLEAN }
    \cup
    { [managed |-> TRUE, retry_on_unauthorized |-> r, jwt_exp_secs |-> e,
       test_key |-> FALSE] :
        r \in BOOLEAN,
        e \in { x \in JwtExpSecs : JwtContextNewOk(x, DEFAULT_REFRESH_MARGIN_SECS) } }
    \cup
    { [managed |-> TRUE, retry_on_unauthorized |-> TRUE, jwt_exp_secs |-> 120,
       test_key |-> TRUE] }

\* crypto.rs:205-231: ensure_valid's needs_refresh
NeedsRefresh(ctx, now) ==
    \/ ctx.token = None
    \/ Max(ctx.expires_at - now, 0) <= ctx.refresh_margin_secs

\* crypto.rs:110-118 with 233: build_assertion(cfg, !clamp_logged) writes the
\* clamp warning when the configured lifetime was clamped and the context has
\* not recorded a warning yet; clamp_warnings counts the warnings written
LogClamp(ctx, exp_secs) ==
    IF exp_secs # ClampExpSecs(exp_secs) /\ ~ctx.clamp_logged
    THEN [ctx EXCEPT !.clamp_warnings = @ + 1]
    ELSE ctx

\* crypto.rs:231-240 with build_assertion (crypto.rs:96-164): a new token
\* issued now, expiring after the clamped lifetime; clamp_logged is set once
\* build_assertion has returned a clamped bundle.  With a test key
\* build_assertion returns at crypto.rs:100-108: a bundle of MIN_EXP_SECS,
\* not clamped, no warning.  A token is identified by the build_assertion
\* call that produced it.
BundleLifetime_Clamped(exp_secs, test_key) == ClampExpSecs(exp_secs)

BundleLifetime(exp_secs, test_key) ==
    IF test_key THEN MIN_EXP_SECS ELSE ClampExpSecs(exp_secs)

Reissue(ctx, now, exp_secs, test_key) ==
    [(IF test_key THEN ctx ELSE LogClamp(ctx, exp_secs)) EXCEPT
                !.token = ctx.minted + 1,
                !.minted = ctx.minted + 1,
                !.issued_at = now,
                !.expires_at = now + BundleLifetime(exp_secs, test_key),
                !.lifetime_secs = BundleLifetime(exp_secs, test_key),
                !.clamp_logged =
                    @ \/ (~test_key /\ exp_secs # ClampExpSecs(exp_secs))]

\* crypto.rs:260-263
Invalidate_Keep(ctx) == ctx

Invalidate(ctx) == [ctx EXCEPT !.token = None]

\* response.text().await.unwrap_or_default()
BodyText(resp) == IF resp.readable THEN resp.body ELSE ""

\* impls.rs:301: Error::Auth(format!("401 Unauthorized: {}", body)), as words
BuildAuthError(body) ==
    [kind |-> "err", err |-> "Auth", msg |-> <<"401", "Unauthorized:", body>>]

HttpError(status, body) ==
    [kind |-> "err", err |-> "Http", status |-> status, body |-> body]

\* impls.rs:253: the 401 retry is taken when allowed and not yet used
MayRetryUnauthorized_Always(allow, used) == allow

MayRetryUnauthorized(allow, used) == allow /\ ~used

\* impls.rs:263: the 429 retry is taken when not yet used
MayRetryRateLimited_Always(used) == TRUE

MayRetryRateLimited(used) == ~used

\* impls.rs:266: sleep(self.backoff_delay) ends no earlier than this
SleepUntil_NoDelay(now) == now

SleepUntil(now) == now + BACKOFF_DELAY_SECS

NoCall ==
    [name |-> "none", unauthorized_retry |-> FALSE, rate_limit_retry |-> FALSE,
     token |-> None, sleptAt |-> None, wake |-> None]

NoLog ==
    [requests |-> 0, responses |-> <<>>, tokens |-> <<>>, warn401 |-> 0,
     warn429 |-> 0, sleeps |-> 0, invalidations |-> 0]

DispInit ==
    /\ dnow = 0
    /\ client \in Clients
    /\ jwt = JwtContextNew(client.jwt_exp_secs, DEFAULT_REFRESH_MARGIN_SECS)
    /\ dpc = "idle"
    /\ call = NoCall
    /\ dlog = NoLog
    /\ dresult = NoResult
    /\ sends = 0

\* the call returns
DispatchFinish(result) ==
    /\ dpc' = "idle"
    /\ dresult' = result

\* impls.rs:124-135 and 152-173: discover_ingest_host and get_scoped_token
\* enter send_with_jwt; impls.rs:242-243: both retry flags start false
SendWithJwt(name) ==
    /\ dpc = "idle"
    /\ sends < MaxSends
    /\ sends' = sends + 1
    /\ dpc' = "fetch"
    /\ call' = [NoCall EXCEPT !.name = name]
    /\ dlog' = NoLog
    /\ dresult' = NoResult
    /\ UNCHANGED <<dnow, client, jwt>>
    /\ UNCHANGED nonDispVars

\* impls.rs:248: builder(..).send(): the request leaves with the token
Dispatch(tok) ==
    /\ dpc' = "wait"
    /\ call' = [call EXCEPT !.token = tok]
    /\ dlog' = [dlog EXCEPT !.requests = @ + 1, !.tokens = Append(@, tok)]
    /\ UNCHANGED dresult

\* impls.rs:246 and 190-198: fetch_token is ensure_valid_jwt; a managed
\* context reissues the token when needed, which fails when the key cannot
\* be loaded or signed with (crypto.rs:120-121 and 145-155, after the clamp
\* warning of 112-118; the `?` of crypto.rs:233 returns before 234-240)
FetchToken(keyOk) ==
    /\ dpc = "fetch"
    /\ IF ~client.managed
       THEN /\ Dispatch(ProvidedToken)
            /\ UNCHANGED jwt
       ELSE IF ~NeedsRefresh(jwt, dnow)
       THEN /\ Dispatch(jwt.token)
            /\ UNCHANGED jwt
       ELSE IF keyOk \/ client.test_key
       THEN /\ jwt' = Reissue(jwt, dnow, client.jwt_exp_secs, client.test_key)
            /\ Dispatch(jwt'.token)
       ELSE /\ jwt' = LogClamp(jwt, client.jwt_exp_secs)
            /\ DispatchFinish(Err("Key"))
            /\ UNCHANGED <<call, dlog>>
    /\ UNCHANGED <<dnow, client, sends>>
    /\ UNCHANGED nonDispVars

\* impls.rs:248: send() fails (`?`)
TransportError ==
    /\ dpc = "wait"
    /\ DispatchFinish(Err("Reqwest"))
    /\ UNCHANGED <<dnow, client, jwt, call, dlog, sends>>
    /\ UNCHANGED nonDispVars

\* impls.rs:137-149 and 175-187: what the caller makes of the response
\* send_with_jwt returned
Received(resp) ==
    IF resp.status = 200
    THEN [kind |-> "ok", body |-> BodyText(resp)]
    ELSE IF call.name = "discover_ingest_host"
    THEN [kind |-> "err", err |-> "IngestHostDiscovery",
          status |-> resp.status, body |-> BodyText(resp)]
    ELSE HttpError(resp.status, BodyText(resp))

\* impls.rs:249-275: the response arrives
Response(resp) ==
    /\ dpc = "wait"
    /\ IF resp.status = 401
       THEN IF MayRetryUnauthorized(client.retry_on_unauthorized,
                                    call.unauthorized_retry)
            THEN \* impls.rs:254-257 with 284-288 and 200-205
                 /\ dlog' = [dlog EXCEPT !.responses = Append(@, resp),
                                         !.warn401 = @ + 1,
                                         !.invalidations = @ + 1]
                 /\ jwt' = IF client.managed THEN Invalidate(jwt) ELSE jwt
                 /\ call' = [call EXCEPT !.unauthorized_retry = TRUE]
                 /\ dpc' = "fetch"
                 /\ UNCHANGED dresult
            ELSE \* impls.rs:259-260
                 /\ dlog' = [dlog EXCEPT !.responses = Append(@, resp),
                                         !.warn401 = @ + 1]
                 /\ DispatchFinish(BuildAuthError(BodyText(resp)))
                 /\ UNCHANGED <<jwt, call>>
       ELSE IF resp.status = 429
       THEN IF MayRetryRateLimited(call.rate_limit_retry)
            THEN \* impls.rs:264-268
                 /\ dlog' = [dlog EXCEPT !.responses = Append(@, resp),
                                         !.warn429 = @ + 1,
                                         !.sleeps = @ + 1]
                 /\ call' = [call EXCEPT !.rate_limit_retry = TRUE,
                                         !.sleptAt = dnow,
                                         !.wake = SleepUntil(dnow)]
                 /\ dpc' = "sleep"
                 /\ UNCHANGED <<jwt, dresult>>
            ELSE \* impls.rs:270-271
                 /\ dlog' = [dlog EXCEPT !.responses = Append(@, resp)]
                 /\ DispatchFinish(HttpError(429, BodyText(resp)))
                 /\ UNCHANGED <<jwt, call>>
       ELSE \* impls.rs:274
            /\ dlog' = [dlog EXCEPT !.responses = Append(@, resp)]
            /\ DispatchFinish(Received(resp))
            /\ UNCHANGED <<jwt, call>>
    /\ UNCHANGED <<dnow, client, sends>>
    /\ UNCHANGED nonDispVars

\* impls.rs:266-268: the sleep is over, the loop continues
WakeUp ==
    /\ dpc = "sleep"
    /\ dnow >= call.wake
    /\ dpc' = "fetch"
    /\ UNCHANGED <<dnow, client, jwt, call, dlog, dresult, sends>>
    /\ UNCHANGED nonDispVars

\* a second passes
DispatchTick ==
    /\ dnow < MaxClock
    /\ dnow' = dnow + 1
    /\ UNCHANGED <<client, jwt, dpc, call, dlog, dresult, sends>>
    /\ UNCHANGED nonDispVars

DispNext ==
    \/ \E name \in ControlCalls : SendWithJwt(name)
    \/ \E keyOk \in BOOLEAN : FetchToken(keyOk)
    \/ TransportError
    \/ \E resp \in Responses : Response(resp)
    \/ WakeUp
    \/ DispatchTick

\* the dispatch variables of a client that is not making control-plane calls
DispQuiet ==
    /\ dnow = 0
    /\ client = [managed |-> TRUE, retry_on_unauthorized |-> TRUE, jwt_exp_secs |-> 120,
                 test_key |-> FALSE]
    /\ jwt = JwtContextNew(120, DEFAULT_REFRESH_MARGIN_SECS)
    /\ dpc = "idle"
    /\ call = NoCall
    /\ dlog = NoLog
    /\ dresult = NoResult
    /\ sends = 0

(***************************************************************************)
(* The retry coordinator and its plan (src/src/retry/coordinator.rs,       *)
(* src/src/retry/plan.rs).  Delays are whole milliseconds, the multiplier  *)
(* and the jitter factor are tenths.                                       *)
(***************************************************************************)
MaxAttempts == 3
MaxProbe == 3

\* RetryPlan::new takes any values (plan.rs:26-40)
InitialDelays == {0, 10, 50}
Multipliers == {10, 15, 20}
MaxDelays == {40}
JitterStrategies == {"Full", "Decorrelated"}
Plans ==
    [max_attempts : 0..MaxAttempts, initial_delay : InitialDelays,
     multiplier : Multipliers, max_delay : MaxDelays, jitter : JitterStrategies]

\* plan.rs:58-61: values rng.gen_range can draw, in tenths: 0.0..1.0 for
\* Full and 0.5..1.5 for Decorrelated
JitterDraws(strategy) ==
    IF strategy = "Full" THEN {0, 5, 9} ELSE {5, 10, 12, 14}

AllDraws == JitterDraws("Full") \cup JitterDraws("Decorrelated")

RECURSIVE Pow(_, _)
Pow(b, e) == IF e = 0 THEN 1 ELSE b * Pow(b, e - 1)

\* plan.rs:52-64: delay_for_attempt, with the factor drawn for the jitter
DelayForAttempt(p, n, draw) ==
    IF n <= 1
    THEN p.initial_delay
    ELSE LET scaled == (p.initial_delay * Pow(p.multiplier, n - 1)) \div Pow(10, n - 1)
             capped == Min(scaled, p.max_delay)
         IN  (capped * draw) \div 10

\* errors an attempt can fail with (errors.rs:4-18); status is 0 for the
\* variants that carry none
AttemptErrors ==
    [variant : {"Http"}, status : {400, 401, 403, 429, 500}, body : {"simulated", "throttled"}]
    \cup
    [variant : {"IngestHostDiscovery"}, status : {401, 503}, body : {"simulated"}]
    \cup
    [variant : {"Reqwest", "Timeout", "Auth", "Config", "Json", "Key"},
     status : {0}, body : {""}]

NoError == [variant |-> "none", status |-> 0, body |-> ""]

\* coordinator.rs:100-108
IsRetriable(err) ==
    err.variant \in {"Http", "Reqwest", "IngestHostDiscovery", "Timeout"}

\* coordinator.rs:71: the attempt budget is used up
BudgetSpent_OffByOne(n, max_attempts) == n > max_attempts

BudgetSpent(n, max_attempts) == n >= max_attempts

\* coordinator.rs:94: attempt += 1, a u8
NextAttempt_Same(n) == n

NextAttempt(n) == (n + 1) % 256

\* the latest call of delay_for_attempt: the attempt number it was given,
\* the jitter factor its rng drew, and its result
NoDelayed == [attempt |-> 0, draw |-> 0, delay |-> 0]
NoRetryLog == [calls |-> <<>>, sleeps |-> 0, err |-> NoError]
NoOutcome == [kind |-> "none"]

RetryInit ==
    /\ plan \in Plans
    /\ rpc = "idle"
    /\ attempt = 0
    /\ rlog = NoRetryLog
    /\ delayed = NoDelayed
    /\ rresult = NoOutcome

\* coordinator.rs:56-59: execute starts and calls op(1)
Execute ==
    /\ rpc = "idle"
    /\ rresult = NoOutcome
    /\ attempt' = 1
    /\ rlog' = [NoRetryLog EXCEPT !.calls = <<1>>]
    /\ rpc' = "await"
    /\ UNCHANGED <<plan, delayed, rresult>>
    /\ UNCHANGED nonRetryVars

\* coordinator.rs:60-69: the attempt succeeds
AttemptOk ==
    /\ rpc = "await"
    /\ rresult' = [kind |-> "ok",
                   outcome |-> [attempts |-> attempt, success |-> TRUE]]
    /\ rpc' = "idle"
    /\ UNCHANGED <<plan, attempt, rlog, delayed>>
    /\ UNCHANGED nonRetryVars

\* coordinator.rs:70-93: the attempt fails; execute returns the error or
\* computes the delay of the next attempt and sleeps
AttemptFail(err, draw) ==
    /\ rpc = "await"
    /\ draw \in JitterDraws(plan.jitter)
    /\ IF BudgetSpent(attempt, plan.max_attempts) \/ ~IsRetriable(err)
       THEN /\ rresult' = [kind |-> "err", err |-> err,
                           outcome |-> [attempts |-> attempt, success |-> FALSE]]
            /\ rlog' = [rlog EXCEPT !.err = err]
            /\ rpc' = "idle"
            /\ UNCHANGED delayed
       ELSE /\ delayed' = [attempt |-> attempt + 1, draw |-> draw,
                           delay |-> DelayForAttempt(plan, attempt + 1, draw)]
            /\ rlog' = [rlog EXCEPT !.err = err, !.sleeps = @ + 1]
            /\ rpc' = "sleep"
            /\ UNCHANGED rresult
    /\ UNCHANGED <<plan, attempt>>
    /\ UNCHANGED nonRetryVars

\* coordinator.rs:93-94 and 59: the sleep ends, attempt += 1, op(attempt)
RetryWake ==
    /\ rpc = "sleep"
    /\ attempt' = NextAttempt(attempt)
    /\ rlog' = [rlog EXCEPT !.calls = Append(@, attempt')]
    /\ rpc' = "await"
    /\ UNCHANGED <<plan, delayed, rresult>>
    /\ UNCHANGED nonRetryVars

\* plan.rs:52: delay_for_attempt called on the plan for any attempt number
DelayProbe(n, draw) ==
    /\ rpc = "idle"
    /\ draw \in JitterDraws(plan.jitter)
    /\ delayed' = [attempt |-> n, draw |-> draw,
                   delay |-> DelayForAttempt(plan, n, draw)]
    /\ UNCHANGED <<plan, rpc, attempt, rlog, rresult>>
    /\ UNCHANGED nonRetryVars

RetryNext ==
    \/ Execute
    \/ AttemptOk
    \/ \E err \in AttemptErrors, draw \in AllDraws : AttemptFail(err, draw)
    \/ RetryWake
    \/ \E n \in 1..MaxProbe, draw \in AllDraws : DelayProbe(n, draw)

\* the retry variables of a program that is not running execute
RetryQuiet ==
    /\ plan = [max_attempts |-> 4, initial_delay |-> 200, multiplier |-> 18,
               max_delay |-> 5000, jitter |-> "Full"]
    /\ rpc = "idle"
    /\ attempt = 0
    /\ rlog = NoRetryLog
    /\ delayed = NoDelayed
    /\ rresult = NoOutcome

(***************************************************************************)
(* Client construction and the shared scoped token                         *)
(* (src/src/client/impls.rs, src/src/client/mod.rs).                       *)
(***************************************************************************)
MaxRequests == 3

IdleUser ==
    [pc |-> "idle", unauthorized_retry |-> FALSE, rate_limit_retry |-> FALSE,
     token |-> <<>>, result |-> NoResult]

\* the configurations new() can be given: any jwt_exp_secs, with a token or a
\* private key
ClientConfigs ==
    [managed : BOOLEAN, retry_on_unauthorized : BOOLEAN, jwt_exp_secs : JwtExpSecs,
     test_key : {FALSE}]
    \cup
    { [managed |-> TRUE, retry_on_unauthorized |-> TRUE, jwt_exp_secs |-> 120,
       test_key |-> TRUE] }

\* before new() is called; the JwtContext is the one new() will try to build
ClientInit ==
    /\ dnow = 0
    /\ client \in ClientConfigs
    /\ jwt = JwtContextNew(client.jwt_exp_secs, DEFAULT_REFRESH_MARGIN_SECS)
    /\ dpc = "idle"
    /\ call = NoCall
    /\ dlog = NoLog
    /\ dresult = NoResult
    /\ sends = 0
    /\ npc = "start"
    /\ url_ok \in BOOLEAN
    /\ key_ok \in BOOLEAN
    \* a test key is not loaded (crypto.rs:98-108)
    /\ client.test_key => key_ok
    /\ ingest_host = <<>>
    /\ scoped_token = <<>>
    /\ nresult = NoResult
    /\ users = [u \in Callers |-> IdleUser]
    /\ exchanged = 0
    /\ requested = 0

\* impls.rs:74-79: reqwest::Url::parse(&control_host) fails
UrlRejected_Never(ok) == FALSE

UrlRejected(ok) == ~ok

\* the `?` after discover_ingest_host() and get_scoped_token() (impls.rs:117-118)
Propagated_Never(res) == FALSE

Propagated(res) == res.kind # "ok"

\* impls.rs:62-116: new() up to the client value: the URL is validated, then
\* the auth state is built
New ==
    /\ npc = "start"
    /\ IF UrlRejected(url_ok)
       THEN /\ npc' = "failed"
            /\ nresult' = [kind |-> "err", err |-> "Config", msg |-> "Invalid control host URL"]
       ELSE IF client.managed
               /\ ~JwtContextNewOk(client.jwt_exp_secs, DEFAULT_REFRESH_MARGIN_SECS)
       THEN /\ npc' = "failed"
            /\ nresult' = [kind |-> "err", err |-> "Config", msg |-> "refresh margin"]
       ELSE /\ npc' = "discover"
            /\ UNCHANGED nresult
    /\ UNCHANGED <<url_ok, key_ok, ingest_host, scoped_token, users, exchanged, requested>>
    /\ UNCHANGED dispVars
    /\ UNCHANGED nonClientVars

\* impls.rs:117 and 124-135: new() calls discover_ingest_host
Discover ==
    /\ npc = "discover"
    /\ call = NoCall
    /\ SendWithJwt("discover_ingest_host")

\* impls.rs:137-149 and 117: discover_ingest_host returns; its error ends new()
DiscoverReturn ==
    /\ npc = "discover"
    /\ dpc = "idle"
    /\ call.name = "discover_ingest_host"
    /\ dresult # NoResult
    /\ IF Propagated(dresult)
       THEN /\ npc' = "failed"
            /\ nresult' = dresult
            /\ UNCHANGED ingest_host
       ELSE /\ npc' = "exchange"
            /\ ingest_host' = IF dresult.kind = "ok" THEN <<dresult.body>> ELSE ingest_host
            /\ UNCHANGED nresult
    /\ UNCHANGED <<url_ok, key_ok, scoped_token, users, exchanged, requested>>
    /\ UNCHANGED dispVars
    /\ UNCHANGED nonClientVars

\* impls.rs:118 and 152-173: new() calls get_scoped_token
Exchange ==
    /\ npc = "exchange"
    /\ call.name = "discover_ingest_host"
    /\ SendWithJwt("get_scoped_token")

\* impls.rs:175-187 and 118-119: get_scoped_token returns; new() returns the
\* client or the error
ExchangeReturn ==
    /\ npc = "exchange"
    /\ dpc = "idle"
    /\ call.name = "get_scoped_token"
    /\ dresult # NoResult
    /\ IF Propagated(dresult)
       THEN /\ npc' = "failed"
            /\ nresult' = dresult
            /\ UNCHANGED scoped_token
       ELSE /\ npc' = "built"
            /\ scoped_token' = IF dresult.kind = "ok" THEN <<dresult.body>> ELSE scoped_token
            /\ nresult' = [kind |-> "ok"]
    /\ UNCHANGED <<url_ok, key_ok, ingest_host, users, exchanged, requested>>
    /\ UNCHANGED dispVars
    /\ UNCHANGED nonClientVars

\* new() with the control-plane calls it runs; the key named by the
\* configuration loads at every ensure_valid or at none
ClientNext ==
    \/ New
    \/ Discover
    \/ DiscoverReturn
    \/ Exchange
    \/ ExchangeReturn
    \/ FetchToken(key_ok)
    \/ TransportError
    \/ \E resp \in Responses : Response(resp)
    \/ WakeUp
    \/ DispatchTick

\* a client that was built: the clones of it share scoped_token
\* (client/mod.rs:13-29, Arc<Mutex<Option<String>>>)
ScopedInit ==
    /\ npc = "built"
    /\ url_ok = TRUE
    /\ key_ok = TRUE
    /\ ingest_host = <<"host">>
    /\ scoped_token = <<0>>
    /\ nresult = [kind |-> "ok"]
    /\ users = [u \in Callers |-> IdleUser]
    /\ exchanged = 0
    /\ requested = 0

\* impls.rs:307-316 with 242-243: a task enters send_with_scoped_token (from
\* open_channel, impls.rs:365); the token is set, so no exchange comes first
ScopedSend(u) ==
    /\ users[u].pc = "idle"
    /\ scoped_token # <<>>
    /\ requested < MaxRequests
    /\ requested' = requested + 1
    /\ users' = [users EXCEPT ![u] = [IdleUser EXCEPT !.pc = "fetch"]]
    /\ UNCHANGED <<npc, url_ok, key_ok, ingest_host, scoped_token, nresult, exchanged>>
    /\ UNCHANGED nonScopedVars

\* impls.rs:246-248 with 320-325: fetch_token clones the token under the
\* mutex, which is released before the request is sent
ScopedFetch(u) ==
    /\ users[u].pc = "fetch"
    /\ users' = [users EXCEPT ![u].pc = "wait", ![u].token = scoped_token]
    /\ UNCHANGED <<npc, url_ok, key_ok, ingest_host, scoped_token, nresult,
                   exchanged, requested>>
    /\ UNCHANGED nonScopedVars

\* impls.rs:248-275: the answer to the data-plane request (the sleep before
\* the 429 retry takes no step of its own here); a first 401 calls
\* refresh_token, which is get_scoped_token: the exchange request goes out
ScopedResponse(u, status) ==
    /\ users[u].pc = "wait"
    /\ users' = [users EXCEPT ![u] =
          IF status = 401
          THEN IF ~@.unauthorized_retry
               THEN [@ EXCEPT !.pc = "exchange"]
               ELSE [@ EXCEPT !.pc = "idle",
                              !.result = [kind |-> "err", err |-> "Auth"]]
          ELSE IF status = 429
          THEN IF ~@.rate_limit_retry
               THEN [@ EXCEPT !.pc = "fetch", !.rate_limit_retry = TRUE]
               ELSE [@ EXCEPT !.pc = "idle",
                              !.result = HttpError(429, "")]
          ELSE [@ EXCEPT !.pc = "idle",
                         !.result = [kind |-> "ok", status |-> status]]]
    /\ UNCHANGED <<npc, url_ok, key_ok, ingest_host, scoped_token, nresult,
                   exchanged, requested>>
    /\ UNCHANGED nonScopedVars

\* impls.rs:152-187 with 255-257: get_scoped_token returns: the new token is
\* stored and the loop continues, or the error ends the call at the `?`
ExchangeDone(u, ok) ==
    /\ users[u].pc = "exchange"
    /\ IF ok
       THEN /\ scoped_token' = <<exchanged + 1>>
            /\ exchanged' = exchanged + 1
            /\ users' = [users EXCEPT ![u].pc = "fetch",
                                      ![u].unauthorized_retry = TRUE]
       ELSE /\ users' = [users EXCEPT ![u].pc = "idle",
                                      ![u].result = HttpError(500, "")]
            /\ UNCHANGED <<scoped_token, exchanged>>
    /\ UNCHANGED <<npc, url_ok, key_ok, ingest_host, nresult, requested>>
    /\ UNCHANGED nonScopedVars

ScopedNext ==
    \/ \E u \in Callers : ScopedSend(u)
    \/ \E u \in Callers : ScopedFetch(u)
    \/ \E u \in Callers, status \in Statuses : ScopedResponse(u, status)
    \/ \E u \in Callers, ok \in BOOLEAN : ExchangeDone(u, ok)

\* the construction variables of a program that builds no client
ClientQuiet ==
    /\ npc = "start"
    /\ url_ok = TRUE
    /\ key_ok = TRUE
    /\ ingest_host = <<>>
    /\ scoped_token = <<>>
    /\ nresult = NoResult
    /\ users = [u \in Callers |-> IdleUser]
    /\ exchanged = 0
    /\ requested = 0

(***************************************************************************)
(* client.rs: the refresh policies of the control-plane and ingest token   *)
(* contexts.  Durations are in milliseconds.                               *)
(***************************************************************************)
DEFAULT_JWT_EXP_SECS == 3600
DEFAULT_MIN_COOLDOWN_SECS == 300
DEFAULT_MAX_SKEW_SECS == 30
THRESHOLD_CAP_SECS == 120

\* Option::unwrap_or over an absent (None) setting
UnwrapOr(opt, default) == IF opt = None THEN default ELSE opt

FromSecs(secs) == secs * 1000

\* policy.rs:54-59: RefreshPolicy::derive_threshold, the lesser of 20% of the
\* TTL and 120 s
DeriveThreshold(ttl) == Min(ttl \div 5, FromSecs(THRESHOLD_CAP_SECS))

\* client.rs:159-167: build_refresh_policy over RefreshPolicy::new
\* (policy.rs:17-34)
BuildRefreshPolicy(cfg, ttl) ==
    LET threshold == IF cfg.refresh_threshold_secs = None
                     THEN DeriveThreshold(ttl)
                     ELSE FromSecs(cfg.refresh_threshold_secs)
        min_cooldown ==
            FromSecs(UnwrapOr(cfg.refresh_min_cooldown_secs, DEFAULT_MIN_COOLDOWN_SECS))
        max_skew == FromSecs(UnwrapOr(cfg.refresh_max_skew_secs, DEFAULT_MAX_SKEW_SECS))
    IN  IF RefreshPolicyNewOk(threshold, max_skew)
        THEN [kind |-> "ok",
              policy |-> [threshold |-> threshold, min_cooldown |-> min_cooldown,
                          max_skew |-> max_skew]]
        ELSE [kind |-> "err", err |-> "Config", from |-> "policy"]

\* the settings of a Config that bear on the token contexts (config.rs:15-21)
BuildConfigs ==
    [jwt_exp_secs : {None, 30, 60, 100, 150, 151, 600},
     refresh_threshold_secs : {None, 20, 60},
     refresh_min_cooldown_secs : {None, 0},
     refresh_max_skew_secs : {None, 0}]

\* the answers to the scoped-token request: a JSON body with or without
\* expires_in, or a raw token
ScopedAnswers ==
    [parsed : {TRUE}, expires_in : {None, 30, 100, 600, 3600}]
        \cup [parsed : {FALSE}, expires_in : {None}]

NoPolicy == [kind |-> "none"]

BuildInit ==
    \E cfg \in BuildConfigs :
        build = [cfg |-> cfg, pc |-> "new", ttl |-> 0, control |-> NoPolicy,
                 ingest_ttl |-> 0, ingest |-> NoPolicy]

\* client.rs:231-250: StreamingIngestClient::new builds the control-plane
\* snapshot, whose lifetime is jwt_exp_secs (client.rs:24-35, 43, 54-55), the
\* envelope and the refresh policy
BuildControlContext ==
    /\ build.pc = "new"
    /\ LET jwt_ttl == UnwrapOr(build.cfg.jwt_exp_secs, DEFAULT_JWT_EXP_SECS)
           built == IF TryNewOk(0, jwt_ttl)
                    THEN BuildRefreshPolicy(build.cfg, FromSecs(jwt_ttl))
                    ELSE [kind |-> "err", err |-> "Config", from |-> "envelope"]
       IN  build' = [build EXCEPT !.ttl = jwt_ttl, !.control = built,
                        !.pc = IF built.kind = "ok" THEN "built" ELSE "failed"]
    /\ UNCHANGED nonBuildVars

\* client.rs:371-404: the scoped token has arrived; its lifetime is expires_in
\* (3600 when absent, jwt_exp_secs for a raw body) raised to 60 s, and the
\* ingest context gets its own refresh policy
BuildIngestContext(answer) ==
    /\ build.pc = "built"
    /\ LET expires_in ==
               IF answer.parsed
               THEN UnwrapOr(answer.expires_in, DEFAULT_JWT_EXP_SECS)
               ELSE UnwrapOr(build.cfg.jwt_exp_secs, DEFAULT_JWT_EXP_SECS)
           ttl == Max(expires_in, MIN_TTL_SECS)
           built == BuildRefreshPolicy(build.cfg, FromSecs(ttl))
       IN  build' = [build EXCEPT !.ingest_ttl = ttl, !.ingest = built,
                        !.pc = IF built.kind = "ok" THEN "ready" ELSE "failed"]
    /\ UNCHANGED nonBuildVars

BuildNext ==
    \/ BuildControlContext
    \/ \E answer \in ScopedAnswers : BuildIngestContext(answer)

\* the build variable of a program whose client is already built
BuildQuiet ==
    build = [cfg |-> [jwt_exp_secs |-> None, refresh_threshold_secs |-> None,
                      refresh_min_cooldown_secs |-> None,
                      refresh_max_skew_secs |-> None],
             pc |-> "ready", ttl |-> 0, control |-> NoPolicy,
             ingest_ttl |-> 0, ingest |-> NoPolicy]

(***************************************************************************)
(* The specifications.                                                     *)
(***************************************************************************)
SpecGuardInit == GuardInit /\ ChanInit /\ DispQuiet /\ RetryQuiet /\ ClientQuiet /\ BuildQuiet
SpecGuard == SpecGuardInit /\ [][GuardNext]_vars

\* the guard variables of a client that only uses its channel
GuardQuiet ==
    /\ gnow = 0
    /\ policy = [threshold |-> 60, min_cooldown |-> 60, max_skew |-> 30]
    /\ clock_skew = 0
    /\ envelope = TryNew(0, 0, 60, FALSE)
    /\ last_refresh = None
    /\ refresh_lock = NoCaller
    /\ callers = [c \in Callers |-> IdleCaller]
    /\ returned = [caller |-> NoCaller]
    /\ refreshes = 0
    /\ calls = 0

SpecChannelInit == ChanInit /\ GuardQuiet /\ DispQuiet /\ RetryQuiet /\ ClientQuiet /\ BuildQuiet
SpecChannel == SpecChannelInit /\ [][ChanNext]_vars

SpecDispatchInit == DispInit /\ GuardQuiet /\ ChanInit /\ RetryQuiet /\ ClientQuiet /\ BuildQuiet
SpecDispatch == SpecDispatchInit /\ [][DispNext]_vars

SpecRetryInit == RetryInit /\ GuardQuiet /\ ChanInit /\ DispQuiet /\ ClientQuiet /\ BuildQuiet
SpecRetry == SpecRetryInit /\ [][RetryNext]_vars

SpecClientInit == ClientInit /\ GuardQuiet /\ ChanInit /\ RetryQuiet /\ BuildQuiet
SpecClient == SpecClientInit /\ [][ClientNext]_vars

SpecScopedInit == ScopedInit /\ GuardQuiet /\ ChanInit /\ DispQuiet /\ RetryQuiet /\ BuildQuiet
SpecScoped == SpecScopedInit /\ [][ScopedNext]_vars

\* close_with_timeout runs on: the task is scheduled, the 100 ms sleep ends,
\* and every status poll and the DELETE call return
CloseStep ==
    \/ CloseLoop
    \/ \E d \in {1, 2} : CloseSleep(d)
    \/ StatusSend
    \/ \E outcome \in {"error", "no_entry", "entry"}, committed \in OffsetStrings :
          StatusResponse(outcome, committed)
    \/ CloseCheck
    \/ \E okResp \in BOOLEAN : DeleteResponse(okResp)

SpecChannelLive == SpecChannel /\ WF_vars(CloseStep)

SpecBuildInit ==
    BuildInit /\ GuardQuiet /\ ChanInit /\ DispQuiet /\ RetryQuiet /\ ClientQuiet
SpecBuild == SpecBuildInit /\ [][BuildNext]_vars

(***************************************************************************)
(* Claims about the token guard, checked under SpecGuard.                  *)
(***************************************************************************)
\* the callers whose refresh_cb has been invoked and has not returned yet
InFlight == { c \in Callers : callers[c].pc = "refreshing" }

\* C1: concurrent non-forced callers that find the token stale cause one
\* refresh and all get the refreshed snapshot; none gets the stale one back.
\* Stated for the callers that found the guard's first token (value 0) stale:
\* no refresh had completed before their call, so no cooldown applies, and an
\* Ok result must carry a refreshed token.
C1_NoStaleSnapshotReturned ==
    (/\ returned.caller # NoCaller
     /\ ~returned.force
     /\ returned.sawStale
     /\ returned.sawValue = 0
     /\ returned.result.kind = "ok")
        => returned.result.snap.value # returned.sawValue

\* C2: at most one refresh_fn invocation is in flight at any time on one
\* guard, whatever mix of forced and non-forced callers.
C2_SingleRefreshInFlight == Cardinality(InFlight) <= 1

\* a refresh is in flight while a forced caller waits for the refresh lock
C2_Witness ==
    \E c, d \in Callers :
        /\ c # d
        /\ callers[c].pc = "refreshing"
        /\ callers[d].pc = "wait_lock"
        /\ callers[d].force

(***************************************************************************)
(* Claims about the channel, checked under SpecChannel.                    *)
(***************************************************************************)
\* C3, as claimed: in every state of an opened channel the committed offset
\* is at most the pushed offset, whatever the service reports.
C3_CommittedAtMostPushed ==
    chan.opened => chan.last_committed_offset_token <= chan.last_pushed_offset_token

\* C3, amended: open and append never put the committed offset above the
\* pushed offset; it is above only when it is the value the latest status
\* response reported (the poll stores the service's value as it comes).
C3_CommittedAbovePushedOnlyAsReported ==
    (chan.opened /\ chan.last_committed_offset_token > chan.last_pushed_offset_token)
        => chan.last_committed_offset_token = lastReported

\* an open channel seeded at a positive offset, polled, with rows pushed and
\* not yet committed
C3_Witness ==
    /\ chan.opened
    /\ lastReported # None
    /\ chan.last_committed_offset_token > 0
    /\ chan.last_committed_offset_token < chan.last_pushed_offset_token

\* C4: no rows POST carries more than MAX_REQUEST_SIZE bytes; a payload above
\* it makes the append return DataTooLarge(actual, max) with actual > max,
\* without any request for that payload and with the channel unchanged.
C4_OversizedPayloadNeverSent ==
    /\ [](\A req \in inflight : req.kind = "append" => req.bytes <= 16 * 1024 * 1024)
    /\ [][(/\ cpc = "append_next"
           /\ op.pending # <<>>
           /\ JoinLen(Head(op.pending)) > 16 * 1024 * 1024)
          => (/\ cresult'.res = [kind |-> "err", err |-> "DataTooLarge",
                                 actual |-> JoinLen(Head(op.pending)),
                                 max |-> 16 * 1024 * 1024]
              /\ cresult'.res.actual > cresult'.res.max
              /\ cpc' = "idle"
              /\ inflight' = inflight
              /\ sent' = sent
              /\ chan' = chan)]_vars

\* an append has returned DataTooLarge without having sent anything
C4_Witness ==
    /\ cresult.res.kind = "err"
    /\ cresult.res.err = "DataTooLarge"
    /\ sent.append = 0
    /\ cpc = "idle"

\* C5: every rows POST carries the continuation token of the latest
\* successful append response (of the open response before any) and
\* offsetToken = last_pushed_offset_token + 1, and at most one request of the
\* channel is in flight.
C5_TokensChainedInOrder ==
    /\ Cardinality(inflight) <= 1
    /\ \A req \in inflight :
          req.kind = "append" =>
              /\ req.continuationToken = lastTok
              /\ req.offsetToken = chan.last_pushed_offset_token + 1
              /\ cpc = "append_wait"

\* the second chunk of an append_rows call is in flight, after the first
\* chunk's response replaced the token of the open response
C5_Witness ==
    /\ op.kind = "append_rows"
    /\ sent.append = 2
    /\ \E req \in inflight :
          /\ req.kind = "append"
          /\ req.continuationToken # op.before.continuation_token

\* the chunks of the running append that have been answered with success
Acked == op.chunks - Len(op.pending)

\* C6, as claimed: a successful append advances last_pushed_offset_token by
\* the number of rows appended.
C6_PushedAdvancesByRows ==
    (/\ cresult.op \in {"append_row", "append_rows"}
     /\ cresult.res.kind = "ok")
        => chan.last_pushed_offset_token = op.before.last_pushed_offset_token + op.rows

\* C6, amended: each successful chunk advances last_pushed_offset_token by
\* exactly 1, whatever its row count, so a fully successful append has
\* advanced it by its number of chunks.
C6_PushedAdvancesByChunks ==
    /\ cpc = "append_next" =>
          chan.last_pushed_offset_token = op.before.last_pushed_offset_token + Acked
    /\ (/\ cresult.op \in {"append_row", "append_rows"}
        /\ cresult.res.kind = "ok")
          => chan.last_pushed_offset_token = op.before.last_pushed_offset_token + op.chunks

\* an append_rows call of two rows in one chunk has succeeded
C6_Witness ==
    /\ cresult.op = "append_rows"
    /\ cresult.res.kind = "ok"
    /\ op.rows = 2
    /\ op.chunks = 1

\* C7: the DELETE request is never out while the committed offset is below
\* the pushed offset.
C7_DeleteOnlyAfterDrain ==
    (\E req \in inflight : req.kind = "delete")
        => ~(chan.last_committed_offset_token < chan.last_pushed_offset_token)

\* the DELETE is out after a drain that needed a status poll
C7_Witness ==
    /\ \E req \in inflight : req.kind = "delete"
    /\ sent.status > 0
    /\ chan.last_pushed_offset_token > 0

\* C8: when the timeout has elapsed after a poll, with the committed offset
\* still below the pushed offset, close returns Timeout(timeout) with the
\* configured timeout, sends no DELETE, and leaves continuation_token and
\* last_pushed_offset_token as they were.
C8_TimeoutLeavesChannelOpen ==
    /\ [][(/\ cpc = "close_check"
           /\ elapsed >= op.timeout
           /\ chan.last_committed_offset_token < chan.last_pushed_offset_token)
          => (/\ cpc' = "idle"
              /\ cresult' = [op |-> "close",
                             res |-> [kind |-> "err", err |-> "Timeout",
                                      dur |-> op.timeout]]
              /\ inflight' = {}
              /\ sent'.delete = 0
              /\ chan' = chan)]_vars
    /\ []((/\ cresult.op = "close"
           /\ cresult.res.kind = "err"
           /\ cresult.res.err = "Timeout")
          => (/\ sent.delete = 0
              /\ chan.deleted = op.before.deleted
              /\ cresult.res.dur = op.timeout
              /\ chan.continuation_token = op.before.continuation_token
              /\ chan.last_pushed_offset_token = op.before.last_pushed_offset_token))

\* close timed out later than the timeout it was given, rows still uncommitted
C8_Witness ==
    /\ cresult.op = "close"
    /\ cresult.res.kind = "err"
    /\ cresult.res.err = "Timeout"
    /\ elapsed > cresult.res.dur
    /\ cresult.res.dur > 0
    /\ chan.last_committed_offset_token < chan.last_pushed_offset_token

(***************************************************************************)
(* Claims about control-plane dispatch, checked under SpecDispatch.        *)
(***************************************************************************)
StatusesOf(resps) == [i \in DOMAIN resps |-> resps[i].status]
Count(resps, status) == Cardinality({ i \in DOMAIN resps : resps[i].status = status })
N401 == Count(dlog.responses, 401)
N429 == Count(dlog.responses, 429)
LastStatus == IF dlog.responses = <<>> THEN 0 ELSE dlog.responses[Len(dlog.responses)].status
Contains(msg, word) == \E i \in DOMAIN msg : msg[i] = word
\* the credential the next request would carry without a reissue
Credential == IF client.managed THEN jwt.token ELSE ProvidedToken

\* the part of C9 that holds whatever the credential is: with
\* retry-on-unauthorized enabled a first 401 is followed by one retry, a
\* second 401 ends the call with Err(Auth) containing "401", two requests
\* were sent for two consecutive 401s, one warning was logged per 401
UnauthorizedRetriedOnce ==
    client.retry_on_unauthorized =>
        /\ N401 <= 2
        /\ dlog.warn401 = N401
        /\ dlog.invalidations = (IF N401 >= 1 THEN 1 ELSE 0)
        /\ call.unauthorized_retry <=> (N401 >= 1)
        /\ dlog.requests <= Len(dlog.responses) + 1
        /\ (StatusesOf(dlog.responses) = <<401>> /\ dpc = "wait") => dlog.requests = 2
        /\ StatusesOf(dlog.responses) = <<401, 401>> => dlog.requests = 2
        /\ N401 = 2 =>
              /\ LastStatus = 401
              /\ dpc = "idle"
              /\ dresult.kind = "err"
              /\ dresult.err = "Auth"
              /\ Contains(dresult.msg, "401")

\* C9, as claimed: with retry-on-unauthorized enabled, a first 401
\* invalidates the credential and is retried exactly once; a second 401
\* returns Err(Auth) containing "401" after exactly two requests and two 401
\* warnings.
C9_UnauthorizedInvalidatesAndRetriesOnce ==
    /\ UnauthorizedRetriedOnce
    /\ (/\ client.retry_on_unauthorized
        /\ dpc = "fetch"
        /\ LastStatus = 401)
          => Credential = None

\* C9, amended: as claimed, except that the first 401 clears the credential
\* only when it is a managed (key-derived) JWT; a client configured with
\* jwt_token keeps that token and the retry carries it again.
C9_ManagedInvalidatedProvidedResent ==
    /\ UnauthorizedRetriedOnce
    /\ (/\ client.retry_on_unauthorized
        /\ dpc = "fetch"
        /\ LastStatus = 401)
          => Credential = (IF client.managed THEN None ELSE ProvidedToken)
    /\ (/\ client.retry_on_unauthorized
        /\ ~client.managed
        /\ N401 >= 1)
          => \A i \in DOMAIN dlog.tokens : dlog.tokens[i] = ProvidedToken

\* two consecutive 401s have ended a call of a managed client with Err(Auth)
C9_Witness ==
    /\ client.managed
    /\ client.retry_on_unauthorized
    /\ StatusesOf(dlog.responses) = <<401, 401>>
    /\ dlog.requests = 2
    /\ dlog.warn401 = 2
    /\ dresult.kind = "err"
    /\ dresult.err = "Auth"
    /\ dlog.tokens[1] # dlog.tokens[2]

\* C10: a first 429 causes exactly one sleep of 2 s and then one retry, the
\* call neither continues nor completes before the 2 s have elapsed; a
\* second 429 returns Err(Http(429, body)) without further sleep or retry.
C10_RateLimitSleepsOnceThenFails ==
    /\ N429 <= 2
    /\ dlog.sleeps = (IF N429 >= 1 THEN 1 ELSE 0)
    /\ dlog.warn429 = dlog.sleeps
    /\ dpc = "sleep" => (LastStatus = 429 /\ dresult.kind = "none")
    /\ (dlog.sleeps = 1 /\ dpc # "sleep") => dnow >= call.sleptAt + 2
    /\ (LastStatus = 429 /\ N429 = 1 /\ dpc = "wait") =>
          dlog.requests = Len(dlog.responses) + 1
    /\ StatusesOf(dlog.responses) = <<429, 429>> => dlog.requests = 2
    /\ N429 = 2 =>
          /\ LastStatus = 429
          /\ dpc = "idle"
          /\ dresult = [kind |-> "err", err |-> "Http", status |-> 429,
                        body |-> BodyText(dlog.responses[Len(dlog.responses)])]

\* two consecutive 429s have ended a call with Err(Http(429, "denied")),
\* after one sleep
C10_Witness ==
    /\ StatusesOf(dlog.responses) = <<429, 429>>
    /\ dlog.sleeps = 1
    /\ dlog.requests = 2
    /\ dresult.kind = "err"
    /\ dresult.err = "Http"
    /\ dresult.body = "denied"
    /\ dnow = call.sleptAt + 2

(***************************************************************************)
(* Claims about the retry coordinator and plan, checked under SpecRetry.   *)
(***************************************************************************)
\* an error the coordinator is said never to retry: anything but a
\* transport failure, a 5xx status, a host-discovery failure or a timeout
SaidFatal(err) ==
    /\ err.variant # "none"
    /\ err.variant \notin {"Reqwest", "IngestHostDiscovery", "Timeout"}
    /\ ~(err.variant = "Http" /\ err.status >= 500)

\* C11: when an attempt fails with a 401, a 403, another 4xx status or any
\* other non-retriable error, execute returns that error after that attempt,
\* without sleeping or retrying.
C11_FatalErrorsNotRetried ==
    SaidFatal(rlog.err) =>
        /\ rpc = "idle"
        /\ rresult.kind = "err"
        /\ rresult.err = rlog.err

C14_DelayWithinCap ==
    delayed.attempt >= 1 =>
        /\ delayed.delay >= 0
        /\ delayed.delay <= plan.max_delay

(***************************************************************************)
(* Further claims about the token guard, checked under SpecGuard.          *)
(***************************************************************************)
AllIdle == \A c \in Callers : callers[c].pc = "idle"
\* the latest ensure_fresh to return returned the error of its refresh_cb
RefreshJustFailed ==
    /\ returned.caller # NoCaller
    /\ returned.result.kind = "err"
    /\ returned.result.err \in RefreshErrors
Expired(env, now) == Remaining(env, now + clock_skew) = None
InCooldown(now) ==
    /\ last_refresh # None
    /\ now >= last_refresh
    /\ now - last_refresh < policy.min_cooldown
\* a step in which caller c enters ensure_fresh without force and goes on
\* to the refresh lock
EntersUnforced(c) ==
    /\ callers[c].pc = "idle"
    /\ callers'[c].pc = "wait_lock"
    /\ ~callers'[c].force
\* a step in which an ensure_fresh call returns
Returns == returned' # returned

\* what C15 says of the failing call itself: it returns the error of
\* refresh_cb, the stored token is unchanged, refresh_in_progress is cleared
\* and last_refresh is not advanced
FailedRefreshKeepsToken ==
    \A c \in Callers :
        (/\ callers[c].pc = "refreshing"
         /\ callers'[c].pc = "idle"
         /\ returned'.result.kind = "err"
         /\ returned'.result.err \in RefreshErrors)
            => /\ returned'.caller = c
               /\ ToSnapshot(envelope') = ToSnapshot(envelope)
               /\ ~envelope'.refresh_in_progress
               /\ last_refresh' = last_refresh
               /\ refresh_lock' = NoCaller

\* C15, as claimed: a failed refresh returns the error and leaves the token,
\* clears refresh_in_progress, keeps last_refresh; and the next ensure_fresh
\* on the still stale token goes on to invoke refresh_cb again.
C15_FailedRefreshIsRetriedByNextCall ==
    [][/\ FailedRefreshKeepsToken
       /\ (/\ RefreshJustFailed
           /\ AllIdle
           /\ Stale(envelope, gnow)
           /\ (Returns \/ callers' # callers))
             => \E c \in Callers : callers'[c].pc = "wait_lock"]_vars

\* C15, amended: the same, the next ensure_fresh going on to the refresh
\* when it is forced, when the token has expired, or when no successful
\* refresh started less than min_cooldown ago; a non-forced call within the
\* cooldown of an earlier successful refresh returns the stale token.
C15_FailedRefreshIsRetriedUnlessCoolingDown ==
    [][/\ FailedRefreshKeepsToken
       /\ (/\ RefreshJustFailed
           /\ AllIdle
           /\ Stale(envelope, gnow)
           /\ (Returns \/ callers' # callers))
             => IF Expired(envelope, gnow) \/ ~InCooldown(gnow)
                THEN \E c \in Callers : callers'[c].pc = "wait_lock"
                ELSE \/ \E c \in Callers : callers'[c].pc = "wait_lock" /\ callers'[c].force
                     \/ /\ Returns
                        /\ ~returned'.force
                        /\ returned'.result = Ok(ToSnapshot(envelope))]_vars

\* after a failed refresh a later non-forced call is running refresh_cb again
C15_Witness ==
    /\ RefreshJustFailed
    /\ refreshes = 2
    /\ \E c \in Callers : callers[c].pc = "refreshing" /\ ~callers[c].force
    /\ envelope.value = 0

\* C16: a non-forced ensure_fresh on a token whose remaining TTL at
\* now + clock_skew exceeds threshold + max_skew returns the cached snapshot
\* at once, does not go on to the refresh, and leaves the envelope and
\* last_refresh unchanged.
C16_FreshTokenServedFromCache ==
    [][~Stale(envelope, gnow) =>
          /\ \A c \in Callers : ~EntersUnforced(c)
          /\ (Returns /\ ~returned'.force /\ returned'.caller # NoCaller
               /\ callers[returned'.caller].pc = "idle")
                => /\ returned'.result = Ok(ToSnapshot(envelope))
                   /\ envelope' = envelope
                   /\ last_refresh' = last_refresh
                   /\ refreshes' = refreshes
                   /\ refresh_lock' = refresh_lock]_vars

\* a non-forced call on a fresh token has returned the cached snapshot
\* while a forced refresh of another caller is running
C16_Witness ==
    /\ returned.caller # NoCaller
    /\ ~returned.force
    /\ ~returned.sawStale
    /\ returned.result.kind = "ok"
    /\ returned.result.snap.value = returned.sawValue
    /\ \E c \in Callers : callers[c].pc = "refreshing" /\ callers[c].force

\* C17, as claimed: a non-forced ensure_fresh less than min_cooldown after
\* the previous successful refresh does not go on to the refresh, whatever
\* the remaining TTL, expired tokens included.
C17_CooldownSkipsRefresh ==
    [][InCooldown(gnow) =>
          \A c \in Callers :
              /\ ~EntersUnforced(c)
              /\ (callers[c].pc = "wait_lock" /\ ~callers[c].force)
                    => callers'[c].pc # "jitter"]_vars

\* C17, amended: the same for a token that has not expired at
\* now + clock_skew; an expired token is refreshed whatever the cooldown
\* (unless a refresh is already in progress).
C17_CooldownSkipsRefreshUnlessExpired ==
    [][InCooldown(gnow) =>
          \A c \in Callers :
              /\ EntersUnforced(c) =>
                    (Expired(envelope, gnow) /\ ~envelope.refresh_in_progress)
              /\ (callers[c].pc = "wait_lock" /\ ~callers[c].force
                   /\ callers'[c].pc = "jitter")
                    => Expired(envelope, gnow)
              /\ (/\ callers[c].pc = "idle"
                  /\ Expired(envelope, gnow)
                  /\ ~envelope.refresh_in_progress
                  /\ callers'[c] # callers[c])
                    => callers'[c].pc = "wait_lock"]_vars

\* within the cooldown a non-forced call found the refreshed token due and
\* got it back from the cache
C17_Witness ==
    /\ InCooldown(gnow)
    /\ refreshes = 1
    /\ returned.caller # NoCaller
    /\ ~returned.force
    /\ returned.sawStale
    /\ returned.sawValue = 1
    /\ returned.result.kind = "ok"
    /\ returned.result.snap.value = 1

\* the step is the successful answer to a rows POST
AppendSucceeds == cpc = "append_wait" /\ cpc' = "append_next"

\* the step is the answer to a status POST that carries a usable entry
StatusSucceeds ==
    /\ cpc = "status_wait"
    /\ cpc' \in {"close_check", "latest_done"}
    /\ lastReported' = chan'.last_committed_offset_token

\* the step ends the running operation with an error or a panic
Fails == cresult' # cresult /\ cresult'.res.kind \in {"err", "panic"}

\* C18: on an open channel, continuation_token and last_pushed_offset_token
\* change only in the step that receives a successful append response, and
\* last_committed_offset_token only in the step that receives a status entry;
\* every step that ends an operation with an error or a panic leaves all
\* three as they were.
C18_FieldsChangeOnlyOnMatchingSuccess ==
    [][chan.opened =>
        /\ (\/ chan'.continuation_token # chan.continuation_token
            \/ chan'.last_pushed_offset_token # chan.last_pushed_offset_token)
              => AppendSucceeds
        /\ chan'.last_committed_offset_token # chan.last_committed_offset_token
              => StatusSucceeds
        /\ Fails =>
              /\ chan'.continuation_token = chan.continuation_token
              /\ chan'.last_pushed_offset_token = chan.last_pushed_offset_token
              /\ chan'.last_committed_offset_token = chan.last_committed_offset_token]_vars

\* the second request of an append_rows call has failed after the first one
\* advanced the channel, and the channel stands where the first one left it
C18_Witness ==
    /\ cresult.op = "append_rows"
    /\ cresult.res.kind = "err"
    /\ cresult.res.err = "Reqwest"
    /\ sent.append = 2
    /\ chan.last_pushed_offset_token = op.before.last_pushed_offset_token + 1

\* the offset the service reported when the channel was opened
Seeded == ParseOffset(cresult.res.committed)

\* C19: a channel that is opened and then closed with no operation in between
\* has last_committed_offset_token = last_pushed_offset_token = the offset of
\* the open response (0 when it had none); its close sends no status poll,
\* goes directly to the DELETE, and returns Ok when the DELETE succeeds.
C19_EmptyChannelClosesAtOnce ==
    /\ (cresult.op = "open" /\ cresult.res.kind = "ok") =>
          /\ chan.last_committed_offset_token = Seeded
          /\ chan.last_pushed_offset_token = Seeded
          /\ cresult.res.committed.tag = "absent" => Seeded = 0
    /\ (op.kind = "close" /\ op.fresh) =>
          /\ chan.last_committed_offset_token = op.before.last_committed_offset_token
          /\ chan.last_pushed_offset_token = chan.last_committed_offset_token
          /\ sent.status = 0
          /\ cpc \in {"close_loop", "delete_wait", "idle"}
          /\ cpc = "delete_wait" => sent.delete = 1
          /\ cpc = "idle" =>
                /\ sent.delete = 1
                /\ cresult.res.kind = IF chan.deleted THEN "ok" ELSE "err"
                /\ cresult.res.kind = "err" => cresult.res.err = "Reqwest"

\* a channel opened at offset 2 has been closed at once, with success
C19_Witness ==
    /\ op.kind = "close"
    /\ op.fresh
    /\ cresult.op = "close"
    /\ cresult.res.kind = "ok"
    /\ chan.last_pushed_offset_token = 2
    /\ sent.delete = 1

\* C20, as claimed: an append whose rows POST is answered 401 Unauthorized
\* refreshes the scoped token and sends the POST once more, so an append is
\* never given up on a 401 after a single POST.
C20_AppendRetriesOnceOnUnauthorized ==
    (/\ cresult.op \in {"append_row", "append_rows"}
     /\ cresult.res.kind = "err"
     /\ cresult.res.err = "Reqwest"
     /\ cresult.res.cause = "unauthorized")
        => sent.append >= 2

C23_ClampWarnedOnceLifetimeClamped ==
    /\ jwt.clamp_warnings <= 1
    /\ jwt.token # None =>
          /\ jwt.expires_at - jwt.issued_at >= MIN_EXP_SECS
          /\ jwt.expires_at - jwt.issued_at <= MAX_EXP_SECS

(***************************************************************************)
(* Further claims about the channel, checked under SpecChannel.            *)
(***************************************************************************)
\* C25, as claimed: every failure of a status poll issued during close is
\* returned to the caller of close as an Err value: close never ends in a
\* panic, and the drain loop goes on after a poll only when the poll
\* delivered an entry for the channel.
C25_ClosePollFailureReturned ==
    /\ [](cresult.op = "close" => cresult.res.kind # "panic")
    /\ [][(cpc = "status_wait" /\ op.kind = "close" /\ cpc' = "close_check")
            => StatusSucceeds]_vars

\* C26, as claimed: once close has succeeded (the DELETE was acknowledged) the
\* channel object sends no further append, status or DELETE request.
C26_NoRequestAfterClose == chan.deleted => inflight = {}

\* the rows of a sequence of chunks, in order
RECURSIVE Flatten(_)
Flatten(chunks) == IF chunks = <<>> THEN <<>> ELSE Head(chunks) \o Flatten(Tail(chunks))

\* the rows per chunk the claim gives for a batch whose first row has the
\* serialized size row_size
ClaimedChunkSize(row_size) ==
    IF MAX_REQUEST_SIZE \div (2 * row_size + 1) >= 1
    THEN MAX_REQUEST_SIZE \div (2 * row_size + 1)
    ELSE 1

\* ceil(n / d)
CeilDiv(n, d) == (n + d - 1) \div d

\* an append_rows call whose rows were all serialized is running or has
\* returned
Batched ==
    /\ op.kind = "append_rows"
    /\ cpc # "json_error"
    /\ ~(cresult.op = "append_rows" /\ cresult.res.kind = "err"
           /\ cresult.res.err = "Json")

\* C29: append_rows cuts the serialized rows into consecutive chunks in input
\* order, nothing dropped or duplicated; every chunk holds at most
\* max(1, floor(16 MiB / (2*row_size + 1))) rows (row_size: the size of the
\* first row) and every chunk but the last exactly that many, so a batch of
\* n rows that succeeds has sent ceil(n / chunk_size) POSTs, each carrying
\* the rows of its chunk joined by newlines; an empty batch sends none and
\* returns Ok(0).
C29_RowsChunkedInOrder ==
    Batched =>
        LET n == Len(op.input)
            cs == IF n = 0 THEN 1 ELSE ClaimedChunkSize(Head(op.input))
            left == Flatten(op.pending)
        IN  /\ op.chunks = CeilDiv(n, cs)
            /\ cpc \in {"append_next", "append_wait"} =>
                  /\ left = SubSeq(op.input, n - Len(left) + 1, n)
                  /\ Len(left) = n - Min(Acked * cs, n)
                  /\ \A i \in 1..Len(op.pending) :
                        /\ Len(op.pending[i]) <= cs
                        /\ i < Len(op.pending) => Len(op.pending[i]) = cs
            /\ cpc = "append_wait" =>
                  \A req \in inflight :
                     /\ req.rows = Len(Head(op.pending))
                     /\ req.bytes = JoinLen(Head(op.pending))
            /\ (cresult.op = "append_rows" /\ cresult.res.kind = "ok") =>
                  /\ sent.append = CeilDiv(n, cs)
                  /\ n = 0 => cresult.res.written = 0

\* two rows of 9 MB each have gone out in two POSTs
C29_Witness ==
    /\ cresult.op = "append_rows"
    /\ cresult.res.kind = "ok"
    /\ op.input = <<9000000, 9000000>>
    /\ sent.append = 2

\* C30, as claimed: when append_rows returns Err(DataTooLarge) that call has
\* sent no request.
C30_DataTooLargeBeforeAnyRequest ==
    (/\ cresult.op = "append_rows"
     /\ cresult.res.kind = "err"
     /\ cresult.res.err = "DataTooLarge")
        => sent.append = 0

(***************************************************************************)
(* Further claims about the retry plan, checked under SpecRetry.           *)
(***************************************************************************)
\* C28, as claimed: delay_for_attempt(1) is zero, and the delay for attempt
\* n >= 2 is the jitter factor times min(initial_delay * multiplier^(n-2),
\* max_delay), so that the base before attempt 2 is initial_delay itself.
C28_BackoffStartsAtInitialDelay ==
    LET n == delayed.attempt
        base == Min((plan.initial_delay * Pow(plan.multiplier, n - 2))
                        \div Pow(10, n - 2),
                    plan.max_delay)
    IN  /\ n = 1 => delayed.delay = 0
        /\ n >= 2 => delayed.delay = (base * delayed.draw) \div 10

(***************************************************************************)
(* Claims about client construction, checked under SpecClient.             *)
(***************************************************************************)
\* the configuration cannot yield a client: the URL does not parse, or the
\* client is to sign its own JWT and the private key cannot be loaded
Unusable == ~url_ok \/ (client.managed /\ ~key_ok)

\* C22: when the control-host URL is invalid, new() returns Err(Config) naming
\* the invalid URL, and when the private key cannot be loaded it returns
\* Err(Key) (or the Err(Config) of an earlier check); in both cases no HTTP
\* request is ever sent and no client is built.
C22_FailsBeforeAnyRequest ==
    Unusable =>
        /\ dlog.requests = 0
        /\ dpc # "wait"
        /\ npc \in {"start", "discover", "failed"}
        /\ call.name # "get_scoped_token"
        /\ npc = "failed" =>
              /\ nresult.kind = "err"
              /\ ~url_ok =>
                    nresult = [kind |-> "err", err |-> "Config",
                               msg |-> "Invalid control host URL"]
              /\ url_ok => nresult.err \in {"Key", "Config"}
              /\ (url_ok /\ JwtContextNewOk(client.jwt_exp_secs,
                                            DEFAULT_REFRESH_MARGIN_SECS))
                    => nresult = Err("Key")

\* new() has failed on a private key that does not load, with a valid URL
C22_Witness ==
    /\ npc = "failed"
    /\ url_ok
    /\ ~key_ok
    /\ nresult = Err("Key")
    /\ sends = 1

\* C27: the scoped-token exchange is called only after host discovery has
\* returned success; when host discovery fails, new() returns its error and
\* the exchange is never called; a client that was built has ingest_host and
\* scoped_token set.
C27_ExchangeOnlyAfterDiscovery ==
    /\ call.name = "get_scoped_token" => ingest_host # <<>>
    /\ (npc = "failed" /\ ingest_host = <<>>) =>
          /\ call.name # "get_scoped_token"
          /\ call.name = "discover_ingest_host" => nresult = dresult
    /\ npc = "built" =>
          /\ nresult.kind = "ok"
          /\ ingest_host # <<>>
          /\ scoped_token # <<>>

\* new() has built a client: host discovery, then the token exchange
C27_Witness ==
    /\ npc = "built"
    /\ call.name = "get_scoped_token"
    /\ sends = 2
    /\ ingest_host # <<>>

(***************************************************************************)
(* Claims about the shared scoped token, checked under SpecScoped.         *)
(***************************************************************************)
\* the tasks whose scoped-token exchange is out
Exchanging == { u \in Callers : users[u].pc = "exchange" }

\* C21, as claimed: at most one scoped-token exchange of a client is in
\* flight at a time.
C21_SingleExchangeInFlight == Cardinality(Exchanging) <= 1

C32_ForcedCallRefreshesOnce ==
    [][/\ (Returns /\ returned'.caller # NoCaller /\ returned'.force) =>
            LET c == returned'.caller
            IN  /\ callers[c].force
                /\ callers[c].pc \in {"refreshing", "updated"}
                /\ returned'.result.kind = "ok" =>
                      /\ returned'.result.snap.value = refreshes
                      /\ returned'.result.snap = ToSnapshot(envelope')
       /\ refreshes' # refreshes =>
            /\ refreshes' = refreshes + 1
            /\ \E c \in Callers :
                  /\ callers[c].pc = "jitter"
                  /\ callers'[c].pc = "refreshing"
                  /\ \A d \in Callers \ {c} :
                        /\ callers'[d] = callers[d]
                        /\ callers[d].pc \notin {"jitter", "refreshing", "updated"}
       /\ \A c \in Callers :
            (callers[c].pc = "wait_lock" /\ callers[c].force
               /\ callers'[c] # callers[c])
                => callers'[c].pc = "jitter"]_vars

\* a second forced call, begun while the first one's refresh was running, has
\* returned the token of its own refresh: on a fresh token, within the cooldown
C32_Witness ==
    /\ returned.caller # NoCaller
    /\ returned.force
    /\ returned.sawValue = 0
    /\ returned.result.kind = "ok"
    /\ returned.result.snap.value = 2
    /\ refreshes = 2
    /\ last_refresh # None
    /\ gnow - last_refresh < policy.min_cooldown

\* C33: whenever no ensure_fresh call is executing, the envelope's
\* refresh_in_progress flag is false.
C33_FlagClearedWhenIdle ==
    (\A c \in Callers : callers[c].pc = "idle") =>
        ~envelope.refresh_in_progress

\* C34: ensure_fresh never returns Ok with a snapshot that is already expired
\* at the time of the call (expires_at <= now + clock_skew).
C34_NoExpiredSnapshotReturned ==
    [][(Returns /\ returned'.caller # NoCaller /\ returned'.result.kind = "ok") =>
          returned'.result.snap.expires_at > gnow + clock_skew]_vars

\* the scenario of C34: a call without force is answered on the fast path with
\* the expired token while another caller's refresh is pending
C34_ExpiredReturnedDuringRefresh ==
    [][~ /\ Returns
         /\ returned'.caller # NoCaller
         /\ ~returned'.force
         /\ returned'.result.kind = "ok"
         /\ returned'.result.snap.expires_at <= gnow
         /\ returned'.result.snap = ToSnapshot(envelope)
         /\ clock_skew = 0
         /\ refresh_lock # NoCaller
         /\ refresh_lock # returned'.caller]_vars

(***************************************************************************)
(* Further claims about the channel, checked under SpecChannel.            *)
(***************************************************************************)
\* C35: close_with_timeout returns Err(Timeout) only when
\* last_committed_offset_token < last_pushed_offset_token at the moment it
\* returns; a poll that completes at or after the deadline and reports
\* convergence lets close go on to the DELETE.
C35_TimeoutOnlyWhenNotDrained ==
    (cresult.op = "close" /\ cresult.res.kind = "err"
        /\ cresult.res.err = "Timeout") =>
            chan.last_committed_offset_token < chan.last_pushed_offset_token

(***************************************************************************)
(* Claims about the refresh policies, checked under SpecBuild.             *)
(***************************************************************************)
DefaultRefreshSettings(cfg) ==
    /\ cfg.refresh_threshold_secs = None
    /\ cfg.refresh_min_cooldown_secs = None
    /\ cfg.refresh_max_skew_secs = None

\* the policy the claim describes for a token of `ttl` seconds
DefaultPolicy(ttl) ==
    [threshold |-> Min((FromSecs(ttl) * 20) \div 100, FromSecs(120)),
     min_cooldown |-> FromSecs(300), max_skew |-> FromSecs(30)]

\* C36: for every token TTL from 60 s to 3600 s with default refresh settings
\* the derived policy has threshold = min(20% of TTL, 120 s) and
\* max_skew < threshold, so neither the control-plane context nor the ingest
\* context fails on refresh-policy validation.
C36_DefaultPolicyAlwaysValid ==
    DefaultRefreshSettings(build.cfg) =>
        /\ (build.control # NoPolicy /\ build.ttl \in 60..3600) =>
              /\ build.control.kind = "ok"
              /\ build.control.policy = DefaultPolicy(build.ttl)
              /\ build.control.policy.max_skew < build.control.policy.threshold
        /\ (build.ingest # NoPolicy /\ build.ingest_ttl \in 60..3600) =>
              /\ build.ingest.kind = "ok"
              /\ build.ingest.policy = DefaultPolicy(build.ingest_ttl)
              /\ build.ingest.policy.max_skew < build.ingest.policy.threshold

(***************************************************************************)
(* Further claims about send_with_token_strategy, checked under            *)
(* SpecDispatch.                                                           *)
(***************************************************************************)
Used(flag) == IF flag THEN 1 ELSE 0

\* the loop of send_with_token_strategy is running
Dispatching == dpc # "idle"

\* C37: a dispatch sends at most three requests: the first one, at most one
\* retry after a 401 and at most one after a 429; each retry spends its own
\* budget, which is never given back during the dispatch, and every pass of
\* the loop that does not return spends one, so the loop ends; with
\* unauthorized retry disabled the first 401 ends the dispatch with the Auth
\* error.
C37_AtMostThreeRequests ==
    /\ [](/\ dlog.requests <= 3
          /\ dlog.requests
                <= 1 + Used(call.unauthorized_retry) + Used(call.rate_limit_retry)
          /\ Len(dlog.responses) <= dlog.requests
          /\ dlog.invalidations = Used(call.unauthorized_retry)
          /\ dlog.sleeps = Used(call.rate_limit_retry)
          /\ (~client.retry_on_unauthorized /\ N401 > 0) =>
                /\ N401 = 1
                /\ LastStatus = 401
                /\ ~Dispatching
                /\ dresult.kind = "err"
                /\ dresult.err = "Auth"
                /\ ~call.unauthorized_retry)
    /\ [][(Dispatching /\ dpc' = "fetch" /\ dpc = "wait") =>
             \* a response that sends the loop round again spends a budget
             Used(call'.unauthorized_retry) + Used(call'.rate_limit_retry)
               = Used(call.unauthorized_retry) + Used(call.rate_limit_retry) + 1]_vars
    /\ [][Dispatching =>
             /\ call.unauthorized_retry => call'.unauthorized_retry
             /\ call.rate_limit_retry => call'.rate_limit_retry]_vars

\* a dispatch that used both retries and ended on its third request
C37_Witness ==
    /\ StatusesOf(dlog.responses) = <<429, 401, 200>>
    /\ dlog.requests = 3
    /\ call.unauthorized_retry
    /\ call.rate_limit_retry
    /\ ~Dispatching
    /\ dresult.kind = "ok"

(***************************************************************************)
(* Termination of close_with_timeout, checked under SpecChannelLive.       *)
(***************************************************************************)
Closing == op.kind = "close" /\ cpc # "idle"

\* C38: close_with_timeout terminates when every status poll and the DELETE
\* return: the drain loop goes round again only while the timeout has not
\* elapsed, so it makes at most one poll at or after the deadline, and a
\* close that has started returns (Ok, an error, or by unwinding).
C38_CloseTerminates ==
    /\ [](Closing =>
            /\ (sent.status >= 1 /\ cpc \in {"close_loop", "close_sleep"}) =>
                  elapsed < op.timeout
            /\ sent.status <= op.timeout + 1
            /\ sent.delete <= 1)
    /\ (Closing ~> ~Closing)

\* a close whose polls never saw the rows committed has returned Timeout after
\* two polls
C38_Witness ==
    /\ cresult.op = "close"
    /\ cresult.res.kind = "err"
    /\ cresult.res.err = "Timeout"
    /\ op.timeout = 2
    /\ sent.status = 2
    /\ sent.delete = 0
    /\ chan.last_committed_offset_token < chan.last_pushed_offset_token

(***************************************************************************)
(* The lifetime of the tokens ensure_valid returns, checked under          *)
(* SpecDispatch.                                                           *)
(***************************************************************************)
\* FetchToken has just handed a token of a managed context to a request
Fetched == dpc = "fetch" /\ dpc' = "wait" /\ client.managed

\* C39 as stated: ensure_valid never returns a token whose remaining lifetime
\* is <= refresh_margin_secs, and refresh_margin_secs < lifetime_secs in every
\* state of the JwtContext.
C39_TokenOutlivesMargin ==
    /\ [][Fetched => jwt'.expires_at - dnow > jwt'.refresh_margin_secs]_vars
    /\ [](client.managed => jwt.refresh_margin_secs < jwt.lifetime_secs)

\* C39, amended: the statement holds for a context whose private key is a real
\* key; a cached token is reused only while expires_at - now exceeds the
\* margin; with a "TEST://assertion:" key every token is built anew with a
\* lifetime of MIN_EXP_SECS, which is never above the margin.
C39_TokenOutlivesMarginUnlessTestKey ==
    /\ [][Fetched =>
             /\ ~client.test_key =>
                   jwt'.expires_at - dnow > jwt'.refresh_margin_secs
             /\ jwt'.token = jwt.token =>
                   jwt.expires_at - dnow > jwt.refresh_margin_secs
             /\ client.test_key =>
                   /\ jwt'.token # jwt.token
                   /\ jwt'.expires_at - dnow = MIN_EXP_SECS
                   /\ jwt'.expires_at - dnow <= jwt'.refresh_margin_secs]_vars
    /\ [](client.managed =>
            /\ jwt.refresh_margin_secs >= MIN_EXP_SECS
            /\ (~client.test_key \/ jwt.minted = 0) =>
                  jwt.refresh_margin_secs < jwt.lifetime_secs
            /\ (client.test_key /\ jwt.minted > 0) =>
                  jwt.lifetime_secs = MIN_EXP_SECS)

\* a context with a real key has reused its cached token for a second call,
\* and later replaced it when no more than the margin was left
C39_Witness ==
    /\ client.managed
    /\ ~client.test_key
    /\ client.jwt_exp_secs = 32
    /\ sends = 2
    /\ jwt.minted = 2
    /\ jwt.issued_at >= 2
    /\ dlog.tokens = <<2>>
    /\ dresult.kind = "ok"

(***************************************************************************)
(* A failing chunk of append_rows, checked under SpecChannel.              *)
(***************************************************************************)
\* the chunks of the running call that were sent and answered with success
ChunksDone == op.chunks - Len(op.pending)

\* the step ends an append_rows call with an error
AppendRowsFails == op.kind = "append_rows" /\ cpc # "idle" /\ Fails

\* the step sends a rows POST
SendsChunk == cpc = "append_next" /\ sent'.append # sent.append

\* C40 as stated: when chunk k fails, chunks k and later are not sent.
C40_FailedChunkNotSent ==
    [][AppendRowsFails => sent'.append = ChunksDone]_vars

\* C40, amended: when chunk k of an append_rows call fails, the call returns
\* that chunk's error at once; a chunk rejected as too large was not sent, a
\* chunk whose request failed was sent once; no later chunk is sent; the
\* channel keeps what the response to chunk k-1 produced; every chunk is sent
\* at most once, in order.
C40_FailedChunkEndsCall ==
    /\ [][AppendRowsFails =>
             /\ cresult'.res.kind = "err"
             /\ cresult'.res.err \in {"Json", "DataTooLarge", "Reqwest"}
             /\ cresult'.res.err = "Reqwest" =>
                   /\ cpc = "append_wait"
                   /\ sent'.append = ChunksDone + 1
             /\ cresult'.res.err = "DataTooLarge" =>
                   /\ TooLarge(JoinLen(Head(op.pending)))
                   /\ sent'.append = ChunksDone
             /\ cresult'.res.err = "Json" => sent'.append = 0
             /\ chan' = chan
             /\ chan.last_pushed_offset_token
                   = op.before.last_pushed_offset_token + ChunksDone
             /\ ChunksDone > 0 => chan.continuation_token = lastTok
             /\ ChunksDone = 0 =>
                   chan.continuation_token = op.before.continuation_token
             /\ cpc' = "idle"
             /\ op'.pending = <<>>
             /\ \A req \in inflight' : req.kind # "append"]_vars
    /\ [][(SendsChunk /\ op.kind = "append_rows") =>
             /\ sent.append = ChunksDone
             /\ sent'.append = sent.append + 1
             /\ op'.pending = op.pending
             /\ \E req \in inflight' \ inflight :
                   /\ req.bytes = JoinLen(Head(op.pending))
                   /\ req.offsetToken
                         = op.before.last_pushed_offset_token + ChunksDone + 1]_vars
    /\ [](op.kind = "append_rows" => sent.append <= op.chunks)

\* the second chunk of an append_rows call was answered 401 after the first
\* one was applied
C40_Witness ==
    /\ cresult.op = "append_rows"
    /\ cresult.res.kind = "err"
    /\ cresult.res.err = "Reqwest"
    /\ cresult.res.cause = "unauthorized"
    /\ op.chunks = 2
    /\ sent.append = 2
    /\ chan.last_pushed_offset_token = op.before.last_pushed_offset_token + 1
    /\ chan.continuation_token = lastTok
    /\ chan.continuation_token # op.before.continuation_token

====
